---- MODULE Spec2Model ----
(***************************************************************************)
(* Command fusion and streaming of the ElevateXY controller, modelled from *)
(* src/elevatexy_pynput.py (class ElevateXYPynput).                        *)
(*                                                                         *)
(* Three threads of the program touch the shared velocity command:         *)
(*   "key"   the pynput listener thread running on_press / on_release,     *)
(*   "main"  the thread running run(): the camera / perception loop,       *)
(*   the command thread running _command_loop (the streamer).              *)
(* The program takes no lock, so every read or write of a shared attribute *)
(* is a step of its own and the steps of the three threads interleave.     *)
(*                                                                         *)
(* Units: linear speeds are in cm/s (3.0 m/s = 300), yaw commands are in   *)
(* milliradians per second, yaw rates of a profile are in degrees per      *)
(* second as in DroneParams.                                               *)
(***************************************************************************)
EXTENDS Integers, FiniteSets, Sequences, TLC

(***************************************************************************)
(* Bounds of the model.                                                    *)
(***************************************************************************)
\* at most this many movement keys are held down at the same time
MaxHeld == 2
\* the passes of the main loop without a frame are counted up to this number
MaxMissed == 3

(***************************************************************************)
(* DroneParams (cm/s, deg/s).                                              *)
(***************************************************************************)
STD_GND_SPEED == 300
STD_VZ_SPEED == 50
STD_YAW_RATE == 30
ECO_GND_SPEED == 200
ECO_VZ_SPEED == 35
ECO_YAW_RATE == 20
PERF_GND_SPEED == 450
PERF_VZ_SPEED == 75
PERF_YAW_RATE == 45

(***************************************************************************)
(* GridZone and the frame.                                                 *)
(***************************************************************************)
TOP_LEFT == 0
TOP_CENTER == 1
TOP_RIGHT == 2
CENTER_LEFT == 3
CENTER == 4
CENTER_RIGHT == 5
BOTTOM_LEFT == 6
BOTTOM_CENTER == 7
BOTTOM_RIGHT == 8

frame_width == 640
frame_height == 480

\* setup_grid_zones: zone |-> <<x1, y1, x2, y2>>, in the order of the dict
zones ==
    LET col_width == frame_width \div 3
        row_height == frame_height \div 3
    IN  << <<0, 0, col_width, row_height>>,
           <<col_width, 0, col_width * 2, row_height>>,
           <<col_width * 2, 0, frame_width, row_height>>,
           <<0, row_height, col_width, row_height * 2>>,
           <<col_width, row_height, col_width * 2, row_height * 2>>,
           <<col_width * 2, row_height, frame_width, row_height * 2>>,
           <<0, row_height * 2, col_width, frame_height>>,
           <<col_width, row_height * 2, col_width * 2, frame_height>>,
           <<col_width * 2, row_height * 2, frame_width, frame_height>> >>

\* get_face_zone with boxes closed on both sides
get_face_zone_ClosedBoxes(x, y) ==
    LET hit == {i \in 1..9 : /\ zones[i][1] <= x /\ x <= zones[i][3]
                             /\ zones[i][2] <= y /\ y <= zones[i][4]}
    IN  IF hit = {} THEN CENTER
        ELSE (CHOOSE i \in hit : \A j \in hit : i <= j) - 1

\* get_face_zone giving a point outside the frame the zone of the nearest
\* pixel of the frame
get_face_zone_NearestPixel(x, y) ==
    LET cx == IF x < 0 THEN 0
              ELSE IF x >= frame_width THEN frame_width - 1 ELSE x
        cy == IF y < 0 THEN 0
              ELSE IF y >= frame_height THEN frame_height - 1 ELSE y
        hit == {i \in 1..9 : /\ zones[i][1] <= cx /\ cx < zones[i][3]
                             /\ zones[i][2] <= cy /\ cy < zones[i][4]}
    IN  IF hit = {} THEN CENTER
        ELSE (CHOOSE i \in hit : \A j \in hit : i <= j) - 1

\* get_face_zone: the first zone (dict order) whose half-open box holds the
\* point, CENTER when no box does
get_face_zone(x, y) ==
    LET hit == {i \in 1..9 : /\ zones[i][1] <= x /\ x < zones[i][3]
                             /\ zones[i][2] <= y /\ y < zones[i][4]}
    IN  IF hit = {} THEN CENTER
        ELSE (CHOOSE i \in hit : \A j \in hit : i <= j) - 1

(***************************************************************************)
(* Keys.  keys_pressed is modelled restricted to the eight movement keys:  *)
(* the code adds every key to the set, but process_manual_keys only tests  *)
(* membership of these eight.                                              *)
(***************************************************************************)
MoveKeys == {"w", "s", "a", "d", "q", "e", "left", "right"}
\* "x" stands for any key on_press has no branch for
CommandKeys == {"space", "1", "2", "3", "t", "l", "r", "esc", "x"}
AllKeys == MoveKeys \cup CommandKeys

Zero == <<0, 0, 0, 0>>
\* nothing has been transmitted on the link yet
NoCmd == <<>>
\* self.face_center is not assigned yet
NoCentre == <<>>

\* self.manual_control = None: no controller, no profile and no rates
NoController == [flight_mode |-> "None", move_speed |-> 0, vertical_speed |-> 0]

\* np.radians(deg), in milliradians
Radians(deg) == (deg * 31416) \div 1800

VARIABLES
    vehicle,            \* self.vehicle is set (connect_drone succeeded)
    armed,              \* vehicle.armed, changed by the autopilot / operator
    linkClosed,         \* vehicle.close() has been called
    autonomous_enabled,
    flight_mode, move_speed, vertical_speed, yaw_rate,
    keys_pressed,
    current_vx, current_vy, current_vz, current_yaw,
    command_active, camera_active,
    face_cascade,       \* a cascade classifier was loaded
    face_detected, face_zone,
    face_center,        \* centre of the last face detected, NoCentre before
    listening,          \* the keyboard listener delivers events
    pc,                 \* pc[t], t \in {"key", "main"}: position of thread t
    op,                 \* op[t]: the caller of the set_velocity in progress
    pend,               \* pend[t]: the arguments of that set_velocity call
    spc,                \* position of the command thread
    snap,               \* the fields _command_loop has read in this tick
    tickArmed,          \* what vehicle.armed answered in this tick
    lastSent,           \* the last command transmitted on the link
    recording,          \* which history is recorded: "calls", "frames"
    published,          \* history variable: the argument tuples of the
                        \* set_velocity calls made so far, and the initial one
    manual_control,     \* the ManualDroneController of the cv2 variants: its
                        \* flight_mode, move_speed and vertical_speed, or
                        \* NoController before connect and where there is none
    lock,               \* ContinuousCommandSender.lock: its holder, or "none"
    loops,              \* the _send_loop threads created so far, the last
                        \* one being ContinuousCommandSender.thread
    missed,             \* history variable: the passes of the main loop in
                        \* AUTONOMOUS mode that got no frame since the last
                        \* set_velocity call
    direction,          \* the argument of the last move call of the
                        \* command-line controllers, "" before the first
    sent                \* history variable: the commands the command-line
                        \* controllers have handed to send_mavlink, in order

vars == <<vehicle, armed, linkClosed, autonomous_enabled, flight_mode,
          move_speed, vertical_speed, yaw_rate, keys_pressed, current_vx,
          current_vy, current_vz, current_yaw, command_active, camera_active,
          face_cascade, face_detected, face_zone, face_center, listening, pc,
          op, pend,
          spc, snap, tickArmed, lastSent, recording, published, missed, lock, loops,
          manual_control, direction, sent>>

profileVars == <<flight_mode, move_speed, vertical_speed, yaw_rate,
                 manual_control>>
curVars == <<current_vx, current_vy, current_vz, current_yaw>>
faceVars == <<face_detected, face_zone, face_center>>
streamVars == <<spc, snap, tickArmed, lastSent>>
moveVars == <<direction, sent>>
histVars == <<recording, published, missed, moveVars>>
senderVars == <<lock, loops>>
sessionVars == <<vehicle, linkClosed, command_active, camera_active,
                 face_cascade, listening>>

Threads == {"key", "main"}

current == <<current_vx, current_vy, current_vz, current_yaw>>

(***************************************************************************)
(* update_speeds: the rates of a flight mode.                              *)
(***************************************************************************)
SpeedsOf(mode) ==
    IF mode = "eco"
    THEN [gnd |-> ECO_GND_SPEED, vz |-> ECO_VZ_SPEED, yaw |-> ECO_YAW_RATE]
    ELSE IF mode = "performance"
    THEN [gnd |-> PERF_GND_SPEED, vz |-> PERF_VZ_SPEED, yaw |-> PERF_YAW_RATE]
    ELSE [gnd |-> STD_GND_SPEED, vz |-> STD_VZ_SPEED, yaw |-> STD_YAW_RATE]

update_speeds(mode) ==
    /\ flight_mode' = mode
    /\ move_speed' = SpeedsOf(mode).gnd
    /\ vertical_speed' = SpeedsOf(mode).vz
    /\ yaw_rate' = SpeedsOf(mode).yaw
    /\ UNCHANGED manual_control

(***************************************************************************)
(* process_manual_keys: the vector computed from the held keys.  The ifs   *)
(* run in sequence, a later assignment overwrites an earlier one.          *)
(***************************************************************************)
\* the manual mapper ignoring the profile: always the performance speeds
ManualVector_PerformanceSpeeds(keys, gnd, vzs, yawdeg) ==
    LET vx1 == IF "w" \in keys THEN PERF_GND_SPEED ELSE 0
        vx2 == IF "s" \in keys THEN -PERF_GND_SPEED ELSE vx1
        vy1 == IF "a" \in keys THEN -PERF_GND_SPEED ELSE 0
        vy2 == IF "d" \in keys THEN PERF_GND_SPEED ELSE vy1
        vz1 == IF "q" \in keys THEN -PERF_VZ_SPEED ELSE 0
        vz2 == IF "e" \in keys THEN PERF_VZ_SPEED ELSE vz1
        yw1 == IF "left" \in keys THEN -Radians(yawdeg) ELSE 0
        yw2 == IF "right" \in keys THEN Radians(yawdeg) ELSE yw1
    IN  <<vx2, vy2, vz2, yw2>>

\* the manual mapper flying backwards at half the ground speed
ManualVector_HalfBackward(keys, gnd, vzs, yawdeg) ==
    LET vx1 == IF "w" \in keys THEN gnd ELSE 0
        vx2 == IF "s" \in keys THEN -(gnd \div 2) ELSE vx1
        vy1 == IF "a" \in keys THEN -gnd ELSE 0
        vy2 == IF "d" \in keys THEN gnd ELSE vy1
        vz1 == IF "q" \in keys THEN -vzs ELSE 0
        vz2 == IF "e" \in keys THEN vzs ELSE vz1
        yw1 == IF "left" \in keys THEN -Radians(yawdeg) ELSE 0
        yw2 == IF "right" \in keys THEN Radians(yawdeg) ELSE yw1
    IN  <<vx2, vy2, vz2, yw2>>

\* the manual mapper climbing whenever it flies forward
ManualVector_ForwardClimbs(keys, gnd, vzs, yawdeg) ==
    LET vx1 == IF "w" \in keys THEN gnd ELSE 0
        vx2 == IF "s" \in keys THEN -gnd ELSE vx1
        vy1 == IF "a" \in keys THEN -gnd ELSE 0
        vy2 == IF "d" \in keys THEN gnd ELSE vy1
        vz1 == IF "q" \in keys \/ "w" \in keys THEN -vzs ELSE 0
        vz2 == IF "e" \in keys THEN vzs ELSE vz1
        yw1 == IF "left" \in keys THEN -Radians(yawdeg) ELSE 0
        yw2 == IF "right" \in keys THEN Radians(yawdeg) ELSE yw1
    IN  <<vx2, vy2, vz2, yw2>>

ManualVector(keys, gnd, vzs, yawdeg) ==
    LET vx1 == IF "w" \in keys THEN gnd ELSE 0
        vx2 == IF "s" \in keys THEN -gnd ELSE vx1
        vy1 == IF "a" \in keys THEN -gnd ELSE 0
        vy2 == IF "d" \in keys THEN gnd ELSE vy1
        vz1 == IF "q" \in keys THEN -vzs ELSE 0
        vz2 == IF "e" \in keys THEN vzs ELSE vz1
        yw1 == IF "left" \in keys THEN -Radians(yawdeg) ELSE 0
        yw2 == IF "right" \in keys THEN Radians(yawdeg) ELSE yw1
    IN  <<vx2, vy2, vz2, yw2>>

\* the guard of process_manual_keys and of _command_loop
VehicleArmed(v, a) == v /\ a

(***************************************************************************)
(* calculate_autonomous_commands: the vector for the last detection.       *)
(***************************************************************************)
\* the perception mapper using the zone of the last detection even when no
\* face is detected
AutonomousVector_IgnoresPresence(detected, zone, gnd, vzs) ==
    IF zone = CENTER THEN Zero
    ELSE LET vy == IF zone \in {TOP_LEFT, CENTER_LEFT, BOTTOM_LEFT} THEN -gnd
                   ELSE IF zone \in {TOP_RIGHT, CENTER_RIGHT, BOTTOM_RIGHT}
                   THEN gnd ELSE 0
             vz == IF zone \in {TOP_LEFT, TOP_CENTER, TOP_RIGHT} THEN -vzs
                   ELSE IF zone \in {BOTTOM_LEFT, BOTTOM_CENTER, BOTTOM_RIGHT}
                   THEN vzs ELSE 0
         IN  <<0, vy, vz, 0>>

AutonomousVector(detected, zone, gnd, vzs) ==
    IF ~detected \/ zone = CENTER THEN Zero
    ELSE LET vy == IF zone \in {TOP_LEFT, CENTER_LEFT, BOTTOM_LEFT} THEN -gnd
                   ELSE IF zone \in {TOP_RIGHT, CENTER_RIGHT, BOTTOM_RIGHT}
                   THEN gnd ELSE 0
             vz == IF zone \in {TOP_LEFT, TOP_CENTER, TOP_RIGHT} THEN -vzs
                   ELSE IF zone \in {BOTTOM_LEFT, BOTTOM_CENTER, BOTTOM_RIGHT}
                   THEN vzs ELSE 0
         IN  <<0, vy, vz, 0>>

\* a construction that leaves the forward rate of the profile in current_vx
InitWith_StartsMoving(rec) ==
    /\ vehicle = FALSE
    /\ armed = FALSE
    /\ linkClosed = FALSE
    /\ autonomous_enabled = FALSE
    /\ flight_mode = "standard"
    /\ move_speed = SpeedsOf("standard").gnd
    /\ vertical_speed = SpeedsOf("standard").vz
    /\ yaw_rate = SpeedsOf("standard").yaw
    /\ keys_pressed = {}
    /\ current_vx = SpeedsOf("standard").gnd
    /\ current_vy = 0
    /\ current_vz = 0
    /\ current_yaw = 0
    /\ command_active = FALSE
    /\ camera_active = FALSE
    /\ face_cascade = FALSE
    /\ face_detected = FALSE
    /\ face_zone = CENTER
    /\ face_center = NoCentre
    /\ listening = FALSE
    /\ pc = [t \in Threads |-> IF t = "main" THEN "init" ELSE "idle"]
    /\ op = [t \in Threads |-> "none"]
    /\ pend = [t \in Threads |-> Zero]
    /\ spc = "off"
    /\ snap = Zero
    /\ tickArmed = FALSE
    /\ lastSent = NoCmd
    /\ recording = rec
    /\ published = {Zero}
    /\ missed = 0
    /\ lock = "none"
    /\ loops = <<>>
    /\ manual_control = NoController
    /\ direction = ""
    /\ sent = <<>>

(***************************************************************************)
(* __init__: the state after construction.  rec is the set of the          *)
(* histories that are recorded.                                            *)
(***************************************************************************)
InitWith(rec) ==
    /\ vehicle = FALSE
    /\ armed = FALSE
    /\ linkClosed = FALSE
    /\ autonomous_enabled = FALSE
    /\ flight_mode = "standard"
    /\ move_speed = SpeedsOf("standard").gnd
    /\ vertical_speed = SpeedsOf("standard").vz
    /\ yaw_rate = SpeedsOf("standard").yaw
    /\ keys_pressed = {}
    /\ current_vx = 0
    /\ current_vy = 0
    /\ current_vz = 0
    /\ current_yaw = 0
    /\ command_active = FALSE
    /\ camera_active = FALSE
    /\ face_cascade = FALSE
    /\ face_detected = FALSE
    /\ face_zone = CENTER
    /\ face_center = NoCentre
    /\ listening = FALSE
    /\ pc = [t \in Threads |-> IF t = "main" THEN "init" ELSE "idle"]
    /\ op = [t \in Threads |-> "none"]
    /\ pend = [t \in Threads |-> Zero]
    /\ spc = "off"
    /\ snap = Zero
    /\ tickArmed = FALSE
    /\ lastSent = NoCmd
    /\ recording = rec
    /\ published = {Zero}
    /\ missed = 0
    /\ lock = "none"
    /\ loops = <<>>
    /\ manual_control = NoController
    /\ direction = ""
    /\ sent = <<>>

\* no history is recorded
Init == InitWith({})

(***************************************************************************)
(* set_velocity, called by thread t with arguments v on behalf of caller   *)
(* c.  The call assigns the four attributes one after the other; every     *)
(* assignment is a step (WriteField).                                      *)
(***************************************************************************)
CallSetVelocity(t, v, c) ==
    /\ pc' = [pc EXCEPT ![t] = "w_vx"]
    /\ pend' = [pend EXCEPT ![t] = v]
    /\ op' = [op EXCEPT ![t] = c]
    /\ published' = IF "calls" \in recording THEN published \cup {v}
                     ELSE published
    /\ missed' = 0
    /\ UNCHANGED <<recording, moveVars>>

\* where thread t continues when the handler it runs returns
Resting(t) == IF t = "key" THEN "idle" ELSE "loop"

Return(t) ==
    /\ pc' = [pc EXCEPT ![t] = Resting(t)]
    /\ UNCHANGED <<op, pend, histVars>>

\* where thread t continues after the last assignment of set_velocity
AfterSetVelocity(t) ==
    IF op[t] = "cleanup" THEN "close"
    ELSE IF op[t] = "stop_movement" THEN "manual_control"
    ELSE IF op[t] = "sender" THEN "unlock"
    ELSE Resting(t)

WriteField(t) ==
    /\ pc[t] \in {"w_vx", "w_vy", "w_vz", "w_yaw"}
    /\ \/ /\ pc[t] = "w_vx"
          /\ current_vx' = pend[t][1]
          /\ pc' = [pc EXCEPT ![t] = "w_vy"]
          /\ UNCHANGED <<current_vy, current_vz, current_yaw, op, pend>>
       \/ /\ pc[t] = "w_vy"
          /\ current_vy' = pend[t][2]
          /\ pc' = [pc EXCEPT ![t] = "w_vz"]
          /\ UNCHANGED <<current_vx, current_vz, current_yaw, op, pend>>
       \/ /\ pc[t] = "w_vz"
          /\ current_vz' = pend[t][3]
          /\ pc' = [pc EXCEPT ![t] = "w_yaw"]
          /\ UNCHANGED <<current_vx, current_vy, current_yaw, op, pend>>
       \/ /\ pc[t] = "w_yaw"
          /\ current_yaw' = pend[t][4]
          /\ pc' = [pc EXCEPT ![t] = AfterSetVelocity(t)]
          /\ op' = [op EXCEPT ![t] = IF op[t] = "cleanup" THEN "cleanup"
                                      ELSE "none"]
          /\ pend' = [pend EXCEPT ![t] = Zero]
          /\ UNCHANGED <<current_vx, current_vy, current_vz>>
    /\ UNCHANGED <<senderVars, armed, autonomous_enabled, profileVars, keys_pressed,
                   faceVars, streamVars, sessionVars, histVars>>

(***************************************************************************)
(* cleanup, run by thread t: clears the flags, stops the listener, calls   *)
(* set_velocity(0, 0, 0, 0), sleeps and closes the vehicle (Close).        *)
(***************************************************************************)
CleanupStart(t) ==
    /\ command_active' = FALSE
    /\ camera_active' = FALSE
    /\ listening' = FALSE
    /\ IF vehicle
       THEN CallSetVelocity(t, Zero, "cleanup")
       ELSE /\ pc' = [pc EXCEPT ![t] = IF t = "key" THEN "stopped" ELSE "exit"]
            /\ UNCHANGED <<op, pend, histVars>>
    /\ UNCHANGED <<vehicle, linkClosed, face_cascade>>

Close(t) ==
    /\ pc[t] = "close"
    /\ linkClosed' = TRUE
    /\ pc' = [pc EXCEPT ![t] = IF t = "key" THEN "stopped" ELSE "exit"]
    /\ op' = [op EXCEPT ![t] = "none"]
    /\ UNCHANGED <<senderVars, vehicle, armed, autonomous_enabled, profileVars,
                   keys_pressed, curVars, command_active, camera_active,
                   face_cascade, faceVars, listening, pend, streamVars,
                   histVars>>

(***************************************************************************)
(* process_manual_keys, run by the listener thread.                        *)
(***************************************************************************)
process_manual_keys(keys) ==
    IF ~VehicleArmed(vehicle, armed)
    THEN Return("key")
    ELSE CallSetVelocity("key",
             ManualVector(keys, move_speed, vertical_speed, yaw_rate),
             "manual")

\* keys_pressed.add(k) / keys_pressed.discard(k), on the movement keys
Added(keys, k) == IF k \in MoveKeys THEN keys \cup {k} ELSE keys
Discarded(keys, k) == keys \ {k}

(***************************************************************************)
(* on_press(k)                                                             *)
(***************************************************************************)
on_press(k) ==
    /\ listening
    /\ pc["key"] = "idle"
    /\ Cardinality(Added(keys_pressed, k)) <= MaxHeld
    /\ keys_pressed' = Added(keys_pressed, k)
    /\ UNCHANGED <<senderVars, armed, curVars, faceVars, streamVars>>
    /\ CASE k = "space" ->
              /\ autonomous_enabled' = ~autonomous_enabled
              /\ IF ~autonomous_enabled'
                 THEN CallSetVelocity("key", Zero, "toggle")
                 ELSE Return("key")
              /\ UNCHANGED <<profileVars, sessionVars>>
         [] k = "1" ->
              /\ update_speeds("eco")
              /\ Return("key")
              /\ UNCHANGED <<autonomous_enabled, sessionVars>>
         [] k = "2" ->
              /\ update_speeds("standard")
              /\ Return("key")
              /\ UNCHANGED <<autonomous_enabled, sessionVars>>
         [] k = "3" ->
              /\ update_speeds("performance")
              /\ Return("key")
              /\ UNCHANGED <<autonomous_enabled, sessionVars>>
         [] k = "t" /\ vehicle ->
              \* simple_takeoff when armed: no effect on the state modelled
              /\ Return("key")
              /\ UNCHANGED <<autonomous_enabled, profileVars, sessionVars>>
         [] k \in {"l", "r"} /\ vehicle ->
              \* vehicle.mode = LAND / RTL, then autonomous_enabled = False
              /\ autonomous_enabled' = FALSE
              /\ Return("key")
              /\ UNCHANGED <<profileVars, sessionVars>>
         [] k = "esc" ->
              /\ CleanupStart("key")
              /\ UNCHANGED <<autonomous_enabled, profileVars>>
         [] OTHER ->
              /\ IF ~autonomous_enabled
                 THEN process_manual_keys(keys_pressed')
                 ELSE Return("key")
              /\ UNCHANGED <<autonomous_enabled, profileVars, sessionVars>>

(***************************************************************************)
(* on_release(k)                                                           *)
(***************************************************************************)
\* on_release giving the authority back to the manual mapper
on_release_ForcesManual(k) ==
    /\ listening
    /\ pc["key"] = "idle"
    /\ keys_pressed' = Discarded(keys_pressed, k)
    /\ autonomous_enabled' = FALSE
    /\ process_manual_keys(keys_pressed')
    /\ UNCHANGED <<senderVars, armed, profileVars, curVars, faceVars,
                   streamVars, sessionVars>>

\* on_release without the test of the mode
on_release_AnyMode(k) ==
    /\ listening
    /\ pc["key"] = "idle"
    /\ keys_pressed' = Discarded(keys_pressed, k)
    /\ process_manual_keys(keys_pressed')
    /\ UNCHANGED <<senderVars, armed, autonomous_enabled, profileVars,
                   curVars, faceVars, streamVars, sessionVars>>

on_release(k) ==
    /\ listening
    /\ pc["key"] = "idle"
    /\ keys_pressed' = Discarded(keys_pressed, k)
    /\ IF ~autonomous_enabled
       THEN process_manual_keys(keys_pressed')
       ELSE Return("key")
    /\ UNCHANGED <<senderVars, armed, autonomous_enabled, profileVars,
                   curVars, faceVars, streamVars, sessionVars>>

KeyPress(K) == \E k \in K : on_press(k)
KeyRelease(K) == \E k \in K : on_release(k)

(***************************************************************************)
(* run: connect_drone, initialize_face_detection, start_camera,            *)
(* start_command_sender and start_keyboard_listener.  A failed connection  *)
(* makes run return before anything is started.  cameras is the set of     *)
(* outcomes start_camera can have.                                         *)
(***************************************************************************)
Run(cameras) ==
    /\ pc["main"] = "init"
    /\ \E connected, cascade, a \in BOOLEAN : \E camera \in cameras :
         IF ~connected
         THEN /\ pc' = [pc EXCEPT !["main"] = "exit"]
              /\ UNCHANGED <<vehicle, armed, face_cascade, camera_active,
                             command_active, listening, spc>>
         ELSE /\ vehicle' = TRUE
              /\ armed' = a
              /\ face_cascade' = cascade
              /\ camera_active' = camera
              /\ command_active' = TRUE
              /\ spc' = "test"
              /\ listening' = TRUE
              /\ pc' = [pc EXCEPT !["main"] = "loop"]
    /\ UNCHANGED <<senderVars, linkClosed, autonomous_enabled, profileVars,
                   keys_pressed, curVars, faceVars, op, pend, snap, tickArmed,
                   lastSent, histVars>>

(***************************************************************************)
(* One pass of the main loop of run up to the mode test: leaves the loop   *)
(* for cleanup when command_active is false, reads a frame when the camera *)
(* is active and goes on to the detection when autonomous_enabled is set.  *)
(***************************************************************************)
MainLoop ==
    /\ pc["main"] = "loop"
    /\ IF ~command_active
       THEN CleanupStart("main")
       ELSE /\ \E ret \in BOOLEAN :
                 /\ pc' = [pc EXCEPT !["main"] =
                             IF camera_active /\ ret /\ autonomous_enabled
                             THEN "checked" ELSE "loop"]
                 /\ missed' = IF /\ "frames" \in recording
                                 /\ camera_active /\ ~ret
                                 /\ autonomous_enabled
                                 /\ missed < MaxMissed
                              THEN missed + 1 ELSE missed
            /\ UNCHANGED <<op, pend, sessionVars, recording, published,
                           moveVars>>
    /\ UNCHANGED <<senderVars, armed, autonomous_enabled, profileVars, keys_pressed,
                   curVars, faceVars, streamVars>>

\* 'q' in the video window (break) or KeyboardInterrupt: run goes to cleanup
Interrupt ==
    /\ pc["main"] = "loop"
    /\ command_active
    /\ CleanupStart("main")
    /\ UNCHANGED <<senderVars, armed, autonomous_enabled, profileVars, keys_pressed,
                   curVars, faceVars, streamVars>>

(***************************************************************************)
(* detect_face followed by calculate_autonomous_commands, after the mode   *)
(* test of the main loop has passed.  Without a cascade detect_face        *)
(* returns at once and leaves face_detected and face_zone as they are.     *)
(* centres is the set of face centres the detector can report.             *)
(***************************************************************************)
Observe(centres) ==
    /\ pc["main"] = "checked"
    /\ IF ~face_cascade
       THEN UNCHANGED faceVars
       ELSE \E found \in BOOLEAN : \E c \in centres :
              IF found
              THEN /\ face_center' = c
                   /\ face_zone' = get_face_zone(c[1], c[2])
                   /\ face_detected' = TRUE
              ELSE /\ face_detected' = FALSE
                   /\ UNCHANGED <<face_zone, face_center>>
    /\ CallSetVelocity("main",
           AutonomousVector(face_detected', face_zone', move_speed,
                            vertical_speed),
           "autonomous")
    /\ UNCHANGED <<senderVars, armed, autonomous_enabled, profileVars, keys_pressed,
                   curVars, streamVars, sessionVars>>

(***************************************************************************)
(* _command_loop, the command thread.                                      *)
(***************************************************************************)
\* the guard of the transmission with the armed test dropped
ShouldTransmit_NoArmedTest(v, a) == v

\* the guard of the transmission asking also for a vector that differs from
\* the one last transmitted
ShouldTransmit_OnlyOnChange(v, a) == v /\ a /\ current # lastSent

\* the guard of the transmission: self.vehicle and self.vehicle.armed
ShouldTransmit(v, a) == v /\ a

\* while self.command_active
LoopTest ==
    /\ spc = "test"
    /\ spc' = IF command_active THEN "arm" ELSE "done"
    /\ UNCHANGED <<senderVars, armed, autonomous_enabled, profileVars, keys_pressed,
                   curVars, faceVars, sessionVars, pc, op, pend, snap,
                   tickArmed, lastSent, histVars>>

\* if self.vehicle and self.vehicle.armed; otherwise sleep to the next tick
ArmCheck ==
    /\ spc = "arm"
    /\ tickArmed' = armed
    /\ spc' = IF ShouldTransmit(vehicle, armed) THEN "r_vx" ELSE "test"
    /\ UNCHANGED <<senderVars, armed, autonomous_enabled, profileVars, keys_pressed,
                   curVars, faceVars, sessionVars, pc, op, pend, snap,
                   lastSent, histVars>>

\* the arguments of the encode call are read one after the other
ReadField ==
    /\ spc \in {"r_vx", "r_vy", "r_vz", "r_yaw"}
    /\ \/ /\ spc = "r_vx"
          /\ snap' = [snap EXCEPT ![1] = current_vx]
          /\ spc' = "r_vy"
       \/ /\ spc = "r_vy"
          /\ snap' = [snap EXCEPT ![2] = current_vy]
          /\ spc' = "r_vz"
       \/ /\ spc = "r_vz"
          /\ snap' = [snap EXCEPT ![3] = current_vz]
          /\ spc' = "r_yaw"
       \/ /\ spc = "r_yaw"
          /\ snap' = [snap EXCEPT ![4] = current_yaw]
          /\ spc' = "send"
    /\ UNCHANGED <<senderVars, armed, autonomous_enabled, profileVars, keys_pressed,
                   curVars, faceVars, sessionVars, pc, op, pend, tickArmed,
                   lastSent, histVars>>

\* send_mavlink(msg).  A call that raises transmits nothing and goes to the
\* except branch; a call that returns is followed by sleep(0.1).  Nothing
\* reaches the vehicle once the link is closed.
Send ==
    /\ spc = "send"
    /\ \E raised \in BOOLEAN :
         IF raised
         THEN /\ spc' = "except"
              /\ UNCHANGED lastSent
         ELSE /\ spc' = "test"
              /\ lastSent' = IF linkClosed THEN lastSent ELSE snap
    /\ snap' = Zero
    /\ tickArmed' = FALSE
    /\ UNCHANGED <<senderVars, armed, autonomous_enabled, profileVars, keys_pressed,
                   curVars, faceVars, sessionVars, pc, op, pend, histVars>>

\* the except branch ending the loop instead of going on
Except_StopsStreamer ==
    /\ spc = "except"
    /\ spc' = "done"
    /\ UNCHANGED <<senderVars, armed, autonomous_enabled, profileVars, keys_pressed,
                   curVars, faceVars, sessionVars, pc, op, pend, snap,
                   tickArmed, lastSent, histVars>>

\* except Exception: print the error, then sleep(0.1) and the next tick
Except ==
    /\ spc = "except"
    /\ spc' = "test"
    /\ UNCHANGED <<senderVars, armed, autonomous_enabled, profileVars, keys_pressed,
                   curVars, faceVars, sessionVars, pc, op, pend, snap,
                   tickArmed, lastSent, histVars>>

\* a step of the command thread
CommandThread == LoopTest \/ ArmCheck \/ ReadField \/ Send \/ Except

(***************************************************************************)
(* The vehicle is armed or disarmed from outside the program.              *)
(***************************************************************************)
ArmChange ==
    /\ vehicle
    /\ ~linkClosed
    /\ armed' = ~armed
    /\ UNCHANGED <<senderVars, autonomous_enabled, profileVars, keys_pressed, curVars,
                   faceVars, sessionVars, pc, op, pend, streamVars, histVars>>

(***************************************************************************)
(* The whole program: the listener thread, the main thread and the command *)
(* thread, with the camera available or not.  The keys of the session and  *)
(* the face centres are kept few: the three threads interleave at every    *)
(* attribute access.                                                       *)
(***************************************************************************)
ProgramKeys == {"w", "space", "l", "esc"}
ProgramCentres == {<<100, 80>>}

Next ==
    \/ Run(BOOLEAN)
    \/ KeyPress(ProgramKeys)
    \/ KeyRelease(ProgramKeys)
    \/ \E t \in Threads : WriteField(t)
    \/ \E t \in Threads : Close(t)
    \/ MainLoop
    \/ Interrupt
    \/ Observe(ProgramCentres)
    \/ LoopTest
    \/ ArmCheck
    \/ ReadField
    \/ Send
    \/ Except
    \/ ArmChange

Spec == Init /\ [][Next]_vars

(***************************************************************************)
(* The two mappers without the command thread.  The command thread writes  *)
(* only spc, snap, tickArmed and lastSent, which no step of the other two  *)
(* threads reads: leaving its steps out changes nothing the mappers, the   *)
(* mode or the shared command can do.                                      *)
(***************************************************************************)
MapperKeys == {"w", "s", "d", "space", "1", "3", "l", "r", "esc", "x"}
MapperCentres == {<<100, 80>>, <<320, 240>>, <<500, 400>>}

NextMappers ==
    \/ Run(BOOLEAN)
    \/ KeyPress(MapperKeys)
    \/ KeyRelease(MapperKeys)
    \/ \E t \in Threads : WriteField(t)
    \/ \E t \in Threads : Close(t)
    \/ MainLoop
    \/ Interrupt
    \/ Observe(MapperCentres)
    \/ ArmChange

SpecMappers == Init /\ [][NextMappers]_vars

(***************************************************************************)
(* The whole program with the history of the set_velocity calls recorded.  *)
(***************************************************************************)
InitRecorded == InitWith({"calls"})

SpecRecorded == InitRecorded /\ [][Next]_vars

(***************************************************************************)
(* The perception loop with the frames the camera fails to deliver         *)
(* counted: a connected session with the camera started, in which the only *)
(* key is SPACE.                                                           *)
(***************************************************************************)
InitStale == InitWith({"frames"})

NextStale ==
    \/ Run({TRUE})
    \/ KeyPress({"space"})
    \/ \E t \in Threads : WriteField(t)
    \/ MainLoop
    \/ Observe(ProgramCentres)
    \/ ArmChange

SpecStale == InitStale /\ [][NextStale]_vars

(***************************************************************************)
(* The manual mapper alone: an armed session in MANUAL mode with any set   *)
(* of movement keys held and any profile selected, in which a key that is  *)
(* not held is released: on_release recomputes the vector from the held    *)
(* keys and set_velocity publishes it.                                     *)
(***************************************************************************)
FlightModes == {"eco", "standard", "performance"}

InitKeys ==
    /\ vehicle = TRUE
    /\ armed = TRUE
    /\ linkClosed = FALSE
    /\ autonomous_enabled = FALSE
    /\ flight_mode \in FlightModes
    /\ move_speed = SpeedsOf(flight_mode).gnd
    /\ vertical_speed = SpeedsOf(flight_mode).vz
    /\ yaw_rate = SpeedsOf(flight_mode).yaw
    /\ keys_pressed \in SUBSET MoveKeys
    /\ current_vx = 0
    /\ current_vy = 0
    /\ current_vz = 0
    /\ current_yaw = 0
    /\ command_active = TRUE
    /\ camera_active = FALSE
    /\ face_cascade = FALSE
    /\ face_detected = FALSE
    /\ face_zone = CENTER
    /\ face_center = NoCentre
    /\ listening = TRUE
    /\ pc = [t \in Threads |-> IF t = "main" THEN "loop" ELSE "idle"]
    /\ op = [t \in Threads |-> "none"]
    /\ pend = [t \in Threads |-> Zero]
    /\ spc = "test"
    /\ snap = Zero
    /\ tickArmed = FALSE
    /\ lastSent = NoCmd
    /\ recording = {}
    /\ published = {Zero}
    /\ missed = 0
    /\ lock = "none"
    /\ loops = <<>>
    /\ manual_control = NoController
    /\ direction = ""
    /\ sent = <<>>

NextKeys ==
    \/ KeyRelease({"x"})
    \/ WriteField("key")

SpecKeys == InitKeys /\ [][NextKeys]_vars

(***************************************************************************)
(* The zone classification alone: a connected session in AUTONOMOUS mode   *)
(* with the camera started, in which the detector reports faces centred on *)
(* the pixels around every boundary of the grid, on the corners of the     *)
(* frame and on its centre.                                                *)
(***************************************************************************)
ZoneXs == {0, 212, 213, 320, 425, 426, 639}
ZoneYs == {0, 159, 160, 240, 319, 320, 479}
ZonePixels == {<<x, y>> : x \in ZoneXs, y \in ZoneYs}

InitZones ==
    /\ vehicle = TRUE
    /\ armed = FALSE
    /\ linkClosed = FALSE
    /\ autonomous_enabled = TRUE
    /\ flight_mode = "standard"
    /\ move_speed = SpeedsOf("standard").gnd
    /\ vertical_speed = SpeedsOf("standard").vz
    /\ yaw_rate = SpeedsOf("standard").yaw
    /\ keys_pressed = {}
    /\ current_vx = 0
    /\ current_vy = 0
    /\ current_vz = 0
    /\ current_yaw = 0
    /\ command_active = TRUE
    /\ camera_active = TRUE
    /\ face_cascade = TRUE
    /\ face_detected = FALSE
    /\ face_zone = CENTER
    /\ face_center = NoCentre
    /\ listening = FALSE
    /\ pc = [t \in Threads |-> IF t = "main" THEN "loop" ELSE "idle"]
    /\ op = [t \in Threads |-> "none"]
    /\ pend = [t \in Threads |-> Zero]
    /\ spc = "test"
    /\ snap = Zero
    /\ tickArmed = FALSE
    /\ lastSent = NoCmd
    /\ recording = {}
    /\ published = {Zero}
    /\ missed = 0
    /\ lock = "none"
    /\ loops = <<>>
    /\ manual_control = NoController
    /\ direction = ""
    /\ sent = <<>>

NextZones ==
    \/ MainLoop
    \/ Observe(ZonePixels)
    \/ WriteField("main")

SpecZones == InitZones /\ [][NextZones]_vars

(***************************************************************************)
(* The same session with the detector reporting centres on the corners,    *)
(* the edges and the centre of the frame and one pixel beyond each edge.   *)
(***************************************************************************)
EdgePixels ==
    {<<x, y>> : x \in {-1, 0, 320, 639, 640}, y \in {-1, 0, 240, 479, 480}}

NextEdges ==
    \/ MainLoop
    \/ Observe(EdgePixels)
    \/ WriteField("main")

SpecEdges == InitZones /\ [][NextEdges]_vars

(***************************************************************************)
(* The tkinter variant, src/elevatexy_sim_tkinter.py (class                *)
(* ElevateXYSimulation): the same command thread, set_velocity and         *)
(* DroneParams, with the key handlers key_press and key_release run by the *)
(* Tk main loop (thread "key").  keyboard_state is modelled by             *)
(* keys_pressed, the keysyms Left, Right, Up, Down by "left", "right",     *)
(* "up", "down".                                                           *)
(***************************************************************************)
movement_keys == MoveKeys \cup {"up", "down"}

\* keyboard_state[key] = True / False, on the movement keys
Pressed(keys, k) == IF k \in movement_keys THEN keys \cup {k} ELSE keys

\* process_manual_control: returns when the vehicle is not armed, otherwise
\* publishes the vector of the keys held
process_manual_control(keys) ==
    IF ~VehicleArmed(vehicle, armed)
    THEN Return("key")
    ELSE CallSetVelocity("key",
             ManualVector(keys, move_speed', vertical_speed', yaw_rate'),
             "manual")

\* the end of key_press: if not self.autonomous_enabled:
\* self.process_manual_control()
ManualControlIfManual(keys) ==
    IF ~autonomous_enabled'
    THEN process_manual_control(keys)
    ELSE Return("key")

key_press(k) ==
    /\ listening
    /\ pc["key"] = "idle"
    /\ Cardinality(Pressed(keys_pressed, k)) <= MaxHeld
    /\ keys_pressed' = Pressed(keys_pressed, k)
    /\ UNCHANGED <<senderVars, armed, curVars, faceVars, streamVars, sessionVars>>
    /\ CASE k = "space" ->
              /\ autonomous_enabled' = ~autonomous_enabled
              /\ IF ~autonomous_enabled'
                 THEN \* stop_movement, then process_manual_control
                      CallSetVelocity("key", Zero, "stop_movement")
                 ELSE Return("key")
              /\ UNCHANGED profileVars
         [] k = "1" ->
              /\ update_speeds("eco")
              /\ UNCHANGED autonomous_enabled
              /\ ManualControlIfManual(keys_pressed')
         [] k = "2" ->
              /\ update_speeds("standard")
              /\ UNCHANGED autonomous_enabled
              /\ ManualControlIfManual(keys_pressed')
         [] k = "3" ->
              /\ update_speeds("performance")
              /\ UNCHANGED autonomous_enabled
              /\ ManualControlIfManual(keys_pressed')
         [] k \in {"l", "r"} /\ vehicle ->
              /\ autonomous_enabled' = FALSE
              /\ UNCHANGED profileVars
              /\ ManualControlIfManual(keys_pressed')
         [] OTHER ->
              \* 't' takes off when armed: no effect on the state modelled
              /\ UNCHANGED <<autonomous_enabled, profileVars>>
              /\ ManualControlIfManual(keys_pressed')

\* key_press after stop_movement has returned (SPACE entering MANUAL)
ManualControlAfterStop ==
    /\ pc["key"] = "manual_control"
    /\ UNCHANGED <<senderVars, armed, autonomous_enabled, profileVars, keys_pressed,
                   curVars, faceVars, streamVars, sessionVars>>
    /\ ManualControlIfManual(keys_pressed)

\* key_release: in MANUAL mode, stop_movement once no movement key is held
key_release(k) ==
    /\ listening
    /\ pc["key"] = "idle"
    /\ keys_pressed' = Discarded(keys_pressed, k)
    /\ IF ~autonomous_enabled /\ k \in movement_keys /\ keys_pressed' = {}
       THEN CallSetVelocity("key", Zero, "release")
       ELSE Return("key")
    /\ UNCHANGED <<senderVars, armed, autonomous_enabled, profileVars, curVars, faceVars,
                   streamVars, sessionVars>>

\* a connected session of the tkinter variant after start-up, in MANUAL mode
\* with no key held
InitTkinter ==
    /\ vehicle = TRUE
    /\ armed \in BOOLEAN
    /\ linkClosed = FALSE
    /\ autonomous_enabled = FALSE
    /\ flight_mode = "standard"
    /\ move_speed = SpeedsOf("standard").gnd
    /\ vertical_speed = SpeedsOf("standard").vz
    /\ yaw_rate = SpeedsOf("standard").yaw
    /\ keys_pressed = {}
    /\ current_vx = 0
    /\ current_vy = 0
    /\ current_vz = 0
    /\ current_yaw = 0
    /\ command_active = TRUE
    /\ camera_active = FALSE
    /\ face_cascade = FALSE
    /\ face_detected = FALSE
    /\ face_zone = CENTER
    /\ face_center = <<frame_width \div 2, frame_height \div 2>>
    /\ listening = TRUE
    /\ pc = [t \in Threads |-> IF t = "main" THEN "loop" ELSE "idle"]
    /\ op = [t \in Threads |-> "none"]
    /\ pend = [t \in Threads |-> Zero]
    /\ spc = "test"
    /\ snap = Zero
    /\ tickArmed = FALSE
    /\ lastSent = NoCmd
    /\ recording = {}
    /\ published = {Zero}
    /\ missed = 0
    /\ lock = "none"
    /\ loops = <<>>
    /\ manual_control = NoController
    /\ direction = ""
    /\ sent = <<>>

TkinterKeys == {"w", "s", "d", "up", "space", "1", "2", "3", "l", "x"}

NextTkinter ==
    \/ \E k \in TkinterKeys : key_press(k)
    \/ \E k \in TkinterKeys : key_release(k)
    \/ ManualControlAfterStop
    \/ WriteField("key")
    \/ ArmChange

SpecTkinter == InitTkinter /\ [][NextTkinter]_vars

(***************************************************************************)
(* The cv2 variant, src/elevatexy_simulation.py (classes                   *)
(* ManualDroneController and ElevateXYSimulation): one thread, no command  *)
(* thread.  run reads a frame, calls detect_and_track in AUTONOMOUS mode   *)
(* and dispatches the key cv2.waitKey returns; every command is sent at    *)
(* once by send_velocity_command or manual_control.send_command.           *)
(* manual_control.vx, .vy, .vz and .yaw_rate_cmd are modelled by           *)
(* current_vx .. current_yaw; flight_mode and the rates of manual_control, *)
(* which every assignment keeps equal to those of ElevateXYSimulation, by  *)
(* flight_mode, move_speed, vertical_speed and yaw_rate; pend["main"] and  *)
(* op["main"] hold the arguments and the caller of the last                *)
(* send_velocity_command call.  Speeds are in cm/s, the yaw rates of       *)
(* DroneParams in milliradians per second, yaw_rate in millidegrees per    *)
(* second.                                                                 *)
(***************************************************************************)
SIM_STD_GND_SPEED == 500
SIM_STD_VZ_SPEED == 50
SIM_STD_YAW_RATE == 500
SIM_ECO_GND_SPEED == 350
SIM_ECO_VZ_SPEED == 35
SIM_ECO_YAW_RATE == 350
SIM_PERF_GND_SPEED == 600
SIM_PERF_VZ_SPEED == 60
SIM_PERF_YAW_RATE == 600

deadzone_horizontal == 80
deadzone_vertical == 60

\* np.degrees on milliradians, np.radians on millidegrees, rounded
np_degrees(mrad) == (mrad * 1800000 + 15708) \div 31416
np_radians(mdeg) == (mdeg * 31416 + 900000) \div 1800000

\* abs()
Abs(n) == IF n < 0 THEN -n ELSE n

\* update_speeds_for_mode and ManualDroneController.update_speeds: any name
\* other than eco and performance selects the standard rates
SimSpeedsOf(mode) ==
    IF mode = "eco"
    THEN [gnd |-> SIM_ECO_GND_SPEED, vz |-> SIM_ECO_VZ_SPEED,
          yaw |-> np_degrees(SIM_ECO_YAW_RATE)]
    ELSE IF mode = "performance"
    THEN [gnd |-> SIM_PERF_GND_SPEED, vz |-> SIM_PERF_VZ_SPEED,
          yaw |-> np_degrees(SIM_PERF_YAW_RATE)]
    ELSE [gnd |-> SIM_STD_GND_SPEED, vz |-> SIM_STD_VZ_SPEED,
          yaw |-> np_degrees(SIM_STD_YAW_RATE)]

\* ManualDroneController.__init__ and set_flight_mode: the name is kept and
\* update_speeds selects the rates
ManualDroneController(mode) ==
    [flight_mode |-> mode,
     move_speed |-> SimSpeedsOf(mode).gnd,
     vertical_speed |-> SimSpeedsOf(mode).vz]

\* update_speeds_for_mode without the call of manual_control.set_flight_mode
update_speeds_for_mode_LeavesController(mode) ==
    /\ flight_mode' = mode
    /\ move_speed' = SimSpeedsOf(mode).gnd
    /\ vertical_speed' = SimSpeedsOf(mode).vz
    /\ yaw_rate' = SimSpeedsOf(mode).yaw
    /\ UNCHANGED manual_control

\* self.flight_mode = mode, then update_speeds_for_mode, which passes the
\* name on to manual_control when there is one
update_speeds_for_mode(mode) ==
    /\ flight_mode' = mode
    /\ move_speed' = SimSpeedsOf(mode).gnd
    /\ vertical_speed' = SimSpeedsOf(mode).vz
    /\ yaw_rate' = SimSpeedsOf(mode).yaw
    /\ manual_control' = IF manual_control # NoController
                          THEN ManualDroneController(mode)
                          ELSE manual_control

\* ElevateXYSimulation.set_flight_mode of elevatexy_simulation.py
set_flight_mode(mode) ==
    IF mode \notin {"eco", "standard", "performance"}
    THEN UNCHANGED profileVars
    ELSE update_speeds_for_mode(mode)

\* the perception mapper with a horizontal dead zone of half the width of a
\* column more than the one configured
calculate_drone_commands_WideDeadzone(zone, c, gnd, vzs) ==
    LET offset_x == c[1] - frame_width \div 2
        offset_y == c[2] - frame_height \div 2
        wide == deadzone_horizontal + frame_width \div 6
        vy == IF zone \in {TOP_LEFT, CENTER_LEFT, BOTTOM_LEFT}
              THEN IF Abs(offset_x) > wide THEN -gnd ELSE 0
              ELSE IF zone \in {TOP_RIGHT, CENTER_RIGHT, BOTTOM_RIGHT}
              THEN IF Abs(offset_x) > wide THEN gnd ELSE 0
              ELSE 0
        vz == IF zone \in {TOP_LEFT, TOP_CENTER, TOP_RIGHT}
              THEN IF Abs(offset_y) > deadzone_vertical THEN -vzs ELSE 0
              ELSE IF zone \in {BOTTOM_LEFT, BOTTOM_CENTER, BOTTOM_RIGHT}
              THEN IF Abs(offset_y) > deadzone_vertical THEN vzs ELSE 0
              ELSE 0
    IN  <<0, vy, vz, 0>>

\* the perception mapper moving forward towards a target off centre
calculate_drone_commands_Approaches(zone, c, gnd, vzs) ==
    LET offset_x == c[1] - frame_width \div 2
        offset_y == c[2] - frame_height \div 2
        vy == IF zone \in {TOP_LEFT, CENTER_LEFT, BOTTOM_LEFT}
              THEN IF Abs(offset_x) > deadzone_horizontal THEN -gnd ELSE 0
              ELSE IF zone \in {TOP_RIGHT, CENTER_RIGHT, BOTTOM_RIGHT}
              THEN IF Abs(offset_x) > deadzone_horizontal THEN gnd ELSE 0
              ELSE 0
        vz == IF zone \in {TOP_LEFT, TOP_CENTER, TOP_RIGHT}
              THEN IF Abs(offset_y) > deadzone_vertical THEN -vzs ELSE 0
              ELSE IF zone \in {BOTTOM_LEFT, BOTTOM_CENTER, BOTTOM_RIGHT}
              THEN IF Abs(offset_y) > deadzone_vertical THEN vzs ELSE 0
              ELSE 0
    IN  <<IF vy # 0 \/ vz # 0 THEN gnd ELSE 0, vy, vz, 0>>

\* the perception mapper turning towards a target in an outer column
calculate_drone_commands_YawsToTarget(zone, c, gnd, vzs) ==
    LET offset_y == c[2] - frame_height \div 2
        yaw == IF zone \in {TOP_LEFT, CENTER_LEFT, BOTTOM_LEFT}
               THEN -SIM_STD_YAW_RATE
               ELSE IF zone \in {TOP_RIGHT, CENTER_RIGHT, BOTTOM_RIGHT}
               THEN SIM_STD_YAW_RATE
               ELSE 0
        vz == IF zone \in {TOP_LEFT, TOP_CENTER, TOP_RIGHT}
              THEN IF Abs(offset_y) > deadzone_vertical THEN -vzs ELSE 0
              ELSE IF zone \in {BOTTOM_LEFT, BOTTOM_CENTER, BOTTOM_RIGHT}
              THEN IF Abs(offset_y) > deadzone_vertical THEN vzs ELSE 0
              ELSE 0
    IN  <<0, 0, vz, yaw>>

\* calculate_drone_commands: the vector for a face centred at c in zone
calculate_drone_commands(zone, c, gnd, vzs) ==
    LET offset_x == c[1] - frame_width \div 2
        offset_y == c[2] - frame_height \div 2
        vy == IF zone \in {TOP_LEFT, CENTER_LEFT, BOTTOM_LEFT}
              THEN IF Abs(offset_x) > deadzone_horizontal THEN -gnd ELSE 0
              ELSE IF zone \in {TOP_RIGHT, CENTER_RIGHT, BOTTOM_RIGHT}
              THEN IF Abs(offset_x) > deadzone_horizontal THEN gnd ELSE 0
              ELSE 0
        vz == IF zone \in {TOP_LEFT, TOP_CENTER, TOP_RIGHT}
              THEN IF Abs(offset_y) > deadzone_vertical THEN -vzs ELSE 0
              ELSE IF zone \in {BOTTOM_LEFT, BOTTOM_CENTER, BOTTOM_RIGHT}
              THEN IF Abs(offset_y) > deadzone_vertical THEN vzs ELSE 0
              ELSE 0
    IN  <<0, vy, vz, 0>>

\* the send of send_velocity_command and of send_command: nothing is sent
\* when the vehicle is not armed or send_mavlink raises
SendNow(v) ==
    IF ~VehicleArmed(vehicle, armed)
    THEN UNCHANGED lastSent
    ELSE \E raised \in BOOLEAN : lastSent' = IF raised THEN lastSent ELSE v

send_velocity_command(v, c) ==
    /\ SendNow(v)
    /\ pend' = [pend EXCEPT !["main"] = v]
    /\ op' = [op EXCEPT !["main"] = c]

\* the fields of manual_control
SetController(v) ==
    /\ current_vx' = v[1]
    /\ current_vy' = v[2]
    /\ current_vz' = v[3]
    /\ current_yaw' = v[4]

stop_movement(c) ==
    /\ send_velocity_command(Zero, c)
    /\ SetController(Zero)

\* detect_and_track.  centres is the set of face centres the detector can
\* report, elapsed tells whether command_interval has passed since the last
\* command.  A pass that sends nothing leaves op["main"] = "none".
detect_and_track(centres) ==
    /\ \E found \in BOOLEAN : \E c \in centres : \E elapsed \in BOOLEAN :
         IF found
         THEN /\ face_center' = c
              /\ face_detected' = TRUE
              /\ face_zone' = get_face_zone(c[1], c[2])
              /\ IF ~elapsed
                 THEN /\ op' = [op EXCEPT !["main"] = "none"]
                      /\ UNCHANGED <<lastSent, pend, curVars>>
                 ELSE IF face_zone' # CENTER
                 THEN /\ send_velocity_command(
                             calculate_drone_commands(face_zone', c,
                                 move_speed, vertical_speed),
                             "autonomous")
                      /\ UNCHANGED curVars
                 ELSE stop_movement("autonomous")
         ELSE /\ face_detected' = FALSE
              /\ UNCHANGED <<face_zone, face_center>>
              /\ stop_movement("autonomous")

\* one pass of the loop of run up to cv2.waitKey: a frame is read and, in
\* AUTONOMOUS mode, handed to detect_and_track
Frame(centres) ==
    /\ pc["main"] = "loop"
    /\ camera_active
    /\ pc' = [pc EXCEPT !["main"] = "key"]
    /\ IF autonomous_enabled
       THEN detect_and_track(centres)
       ELSE /\ op' = [op EXCEPT !["main"] = "none"]
            /\ UNCHANGED <<faceVars, lastSent, pend, curVars>>
    /\ UNCHANGED <<senderVars, armed, autonomous_enabled, profileVars, keys_pressed,
                   sessionVars, spc, snap, tickArmed, histVars>>

\* the vector handle_manual_control leaves in manual_control for key k
ControllerVector(k, gnd, vzs, yawmdeg) ==
    IF k = "w" THEN <<gnd, 0, 0, 0>>
    ELSE IF k = "s" THEN <<-gnd, 0, 0, 0>>
    ELSE IF k = "a" THEN <<0, -gnd, 0, 0>>
    ELSE IF k = "d" THEN <<0, gnd, 0, 0>>
    ELSE IF k = "up" THEN <<0, 0, -vzs, 0>>
    ELSE IF k = "down" THEN <<0, 0, vzs, 0>>
    ELSE IF k = "left" THEN <<0, 0, 0, -np_radians(yawmdeg)>>
    ELSE IF k = "right" THEN <<0, 0, 0, np_radians(yawmdeg)>>
    ELSE Zero

handle_manual_control(k) ==
    IF ~vehicle
    THEN UNCHANGED <<curVars, lastSent>>
    ELSE /\ SetController(ControllerVector(k, move_speed, vertical_speed,
                                           yaw_rate))
         /\ IF ~autonomous_enabled
            THEN SendNow(current')
            ELSE UNCHANGED lastSent

\* the key dispatch of run; "none" is the 255 of cv2.waitKey without a key
RunKey(k) ==
    /\ pc["main"] = "key"
    /\ pc' = [pc EXCEPT !["main"] = "loop"]
    /\ CASE k = "none" ->
              UNCHANGED <<autonomous_enabled, profileVars, curVars, lastSent,
                          pend, op>>
         [] k = "1" ->
              /\ set_flight_mode("eco")
              /\ UNCHANGED <<autonomous_enabled, curVars, lastSent, pend, op>>
         [] k = "2" ->
              /\ set_flight_mode("standard")
              /\ UNCHANGED <<autonomous_enabled, curVars, lastSent, pend, op>>
         [] k = "3" ->
              /\ set_flight_mode("performance")
              /\ UNCHANGED <<autonomous_enabled, curVars, lastSent, pend, op>>
         [] k = "space" ->
              /\ autonomous_enabled' = ~autonomous_enabled
              /\ IF ~autonomous_enabled'
                 THEN stop_movement("stop_movement")
                 ELSE UNCHANGED <<curVars, lastSent, pend, op>>
              /\ UNCHANGED profileVars
         [] k = "l" /\ vehicle ->
              /\ autonomous_enabled' = FALSE
              /\ UNCHANGED <<profileVars, curVars, lastSent, pend, op>>
         [] OTHER ->
              /\ IF ~autonomous_enabled
                 THEN handle_manual_control(k)
                 ELSE UNCHANGED <<curVars, lastSent>>
              /\ UNCHANGED <<autonomous_enabled, profileVars, pend, op>>
    /\ UNCHANGED <<senderVars, armed, keys_pressed, faceVars, sessionVars, spc, snap,
                   tickArmed, histVars>>

\* a connected session of the cv2 variant after the start-up of run
InitSimulation ==
    /\ vehicle = TRUE
    /\ armed = FALSE
    /\ linkClosed = FALSE
    /\ autonomous_enabled = FALSE
    /\ flight_mode = "standard"
    /\ move_speed = SimSpeedsOf("standard").gnd
    /\ vertical_speed = SimSpeedsOf("standard").vz
    /\ yaw_rate = SimSpeedsOf("standard").yaw
    /\ keys_pressed = {}
    /\ current_vx = 0
    /\ current_vy = 0
    /\ current_vz = 0
    /\ current_yaw = 0
    /\ command_active = FALSE
    /\ camera_active = TRUE
    /\ face_cascade = TRUE
    /\ face_detected = FALSE
    /\ face_zone = CENTER
    /\ face_center = <<frame_width \div 2, frame_height \div 2>>
    /\ listening = FALSE
    /\ pc = [t \in Threads |-> IF t = "main" THEN "loop" ELSE "idle"]
    /\ op = [t \in Threads |-> "none"]
    /\ pend = [t \in Threads |-> Zero]
    /\ spc = "off"
    /\ snap = Zero
    /\ tickArmed = FALSE
    /\ lastSent = NoCmd
    /\ recording = {}
    /\ published = {Zero}
    /\ missed = 0
    /\ lock = "none"
    /\ loops = <<>>
    /\ manual_control = ManualDroneController("standard")
    /\ direction = ""
    /\ sent = <<>>

SimulationKeys == {"none", "w", "1", "3", "space", "l"}

\* a centre in each zone: the corner zones at their corner nearest to the
\* centre of the frame, TOP_CENTER with the horizontal offset beyond the
\* dead zone, BOTTOM_CENTER with it inside
SimulationCentres ==
    {<<212, 159>>, <<230, 100>>, <<426, 159>>,
     <<100, 240>>, <<320, 240>>, <<560, 250>>,
     <<212, 320>>, <<300, 400>>, <<426, 320>>}

NextSimulation ==
    \/ Frame(SimulationCentres)
    \/ \E k \in SimulationKeys : RunKey(k)
    \/ ArmChange

SpecSimulation == InitSimulation /\ [][NextSimulation]_vars

(***************************************************************************)
(* The Jetson variant, src/elevatexy_simulation_arm.py: the same           *)
(* ManualDroneController and DroneParams.  ElevateXYSimulation keeps only  *)
(* flight_mode; its set_flight_mode assigns the name it is given and       *)
(* passes it on to manual_control, whose update_speeds selects the rates.  *)
(* ProfileNames is the set of the names set_flight_mode is applied to.     *)
(***************************************************************************)
set_flight_mode_arm(mode) ==
    /\ flight_mode' = mode
    /\ move_speed' = SimSpeedsOf(mode).gnd
    /\ vertical_speed' = SimSpeedsOf(mode).vz
    /\ yaw_rate' = SimSpeedsOf(mode).yaw
    /\ manual_control' = IF manual_control # NoController
                          THEN ManualDroneController(mode)
                          ELSE manual_control

ProfileNames == FlightModes \cup {"sport", ""}

SetFlightModeArm ==
    /\ pc["main"] = "loop"
    /\ \E name \in ProfileNames : set_flight_mode_arm(name)
    /\ UNCHANGED <<senderVars, armed, autonomous_enabled, keys_pressed, curVars, faceVars,
                   sessionVars, pc, op, pend, streamVars, histVars>>

\* handle_manual_control of the Jetson variant: w, a, d and the two arrows
handle_manual_control_arm(k) ==
    /\ pc["main"] = "loop"
    /\ vehicle
    /\ ~autonomous_enabled
    /\ SetController(IF k \in {"w", "a", "d", "up", "down"}
                     THEN ControllerVector(k, move_speed, vertical_speed,
                                           yaw_rate)
                     ELSE Zero)
    /\ SendNow(current')
    /\ UNCHANGED <<senderVars, armed, autonomous_enabled, profileVars, keys_pressed,
                   faceVars, sessionVars, pc, op, pend, spc, snap, tickArmed,
                   histVars>>

ArmKeys == {"w", "d", "up", "x"}

NextSimulationArm ==
    \/ SetFlightModeArm
    \/ \E k \in ArmKeys : handle_manual_control_arm(k)
    \/ ArmChange

SpecSimulationArm == InitSimulation /\ [][NextSimulationArm]_vars

(***************************************************************************)
(* The cv2 variant with the face centres on the borders of the zones and   *)
(* of the frame: every pixel nearest to the centre of the frame of each    *)
(* outer column and row is among them.                                     *)
(***************************************************************************)
SimulationZoneKeys == {"none", "space"}

NextSimulationZones ==
    \/ Frame(ZonePixels)
    \/ \E k \in SimulationZoneKeys : RunKey(k)
    \/ ArmChange

SpecSimulationZones == InitSimulation /\ [][NextSimulationZones]_vars

(***************************************************************************)
(* ContinuousCommandSender, src/manual_control_fix.py: the streamer with a *)
(* lock.  active is modelled by command_active, vx, vy, vz and yaw_rate by *)
(* current_vx .. current_yaw; the threads "key" and "main" are the callers *)
(* of set_velocity, "main" the caller of start and stop.  loops[i] is the  *)
(* i-th _send_loop thread created: its position and the four locals of its *)
(* tick.  Every attribute access is a step; a thread that waits for the    *)
(* lock stays where it is until the lock is free.                          *)
(***************************************************************************)
MaxLoops == 2

SenderVectors == {<<300, 0, 0, 0>>, <<0, 300, -50, 0>>}

LoopName(i) == <<"loop1", "loop2", "loop3", "loop4">>[i]

\* a lock that excludes nobody
Acquire_NoExclusion(who) == lock' = who

\* with self.lock: entered by thread who once the lock is free
Acquire(who) ==
    /\ lock = "none"
    /\ lock' = who

\* set_velocity(vx, vy, vz, yaw_rate) called by thread t: the call, the
\* entry of the with block (the four assignments are the WriteField steps)
\* and its exit
set_velocity(t, v) ==
    /\ pc[t] = Resting(t)
    /\ pc' = [pc EXCEPT ![t] = "lock"]
    /\ pend' = [pend EXCEPT ![t] = v]
    /\ op' = [op EXCEPT ![t] = "sender"]
    /\ published' = IF "calls" \in recording THEN published \cup {v}
                     ELSE published
    /\ UNCHANGED <<senderVars, armed, autonomous_enabled, profileVars,
                   keys_pressed, curVars, faceVars, sessionVars, streamVars,
                   recording, missed, moveVars>>

SetVelocityLock(t) ==
    /\ pc[t] = "lock"
    /\ Acquire(t)
    /\ pc' = [pc EXCEPT ![t] = "w_vx"]
    /\ UNCHANGED <<loops, armed, autonomous_enabled, profileVars,
                   keys_pressed, curVars, faceVars, sessionVars, streamVars,
                   op, pend, histVars>>

SetVelocityUnlock(t) ==
    /\ pc[t] = "unlock"
    /\ lock' = "none"
    /\ pc' = [pc EXCEPT ![t] = Resting(t)]
    /\ UNCHANGED <<loops, armed, autonomous_enabled, profileVars,
                   keys_pressed, curVars, faceVars, sessionVars, streamVars,
                   op, pend, histVars>>

\* what a step of a _send_loop thread leaves alone besides lock and lastSent
LoopFrame ==
    UNCHANGED <<armed, autonomous_enabled, profileVars, keys_pressed, curVars,
                faceVars, sessionVars, pc, op, pend, spc, snap, tickArmed,
                histVars>>

\* the loop test that never looks at the flag
SendLoopTest_IgnoresFlag(i) ==
    /\ loops[i].at = "test"
    /\ loops' = [loops EXCEPT ![i].at = "arm"]
    /\ LoopFrame
    /\ UNCHANGED <<lock, lastSent>>

\* while self.active
SendLoopTest(i) ==
    /\ loops[i].at = "test"
    /\ loops' = [loops EXCEPT ![i].at =
                   IF command_active THEN "arm" ELSE "done"]
    /\ LoopFrame
    /\ UNCHANGED <<lock, lastSent>>

\* if self.vehicle and self.vehicle.armed; otherwise sleep to the next tick
SendLoopArm(i) ==
    /\ loops[i].at = "arm"
    /\ loops' = [loops EXCEPT ![i].at =
                   IF VehicleArmed(vehicle, armed) THEN "lock" ELSE "test"]
    /\ LoopFrame
    /\ UNCHANGED <<lock, lastSent>>

SendLoopLock(i) ==
    /\ loops[i].at = "lock"
    /\ Acquire(LoopName(i))
    /\ loops' = [loops EXCEPT ![i].at = "r_vx"]
    /\ LoopFrame
    /\ UNCHANGED lastSent

\* the copy that keeps the lock after the last field is read
SendLoopRead_KeepsLock(i) ==
    /\ loops[i].at \in {"r_vx", "r_vy", "r_vz", "r_yaw"}
    /\ \/ /\ loops[i].at = "r_vx"
          /\ loops' = [loops EXCEPT ![i].snap[1] = current_vx,
                                    ![i].at = "r_vy"]
       \/ /\ loops[i].at = "r_vy"
          /\ loops' = [loops EXCEPT ![i].snap[2] = current_vy,
                                    ![i].at = "r_vz"]
       \/ /\ loops[i].at = "r_vz"
          /\ loops' = [loops EXCEPT ![i].snap[3] = current_vz,
                                    ![i].at = "r_yaw"]
       \/ /\ loops[i].at = "r_yaw"
          /\ loops' = [loops EXCEPT ![i].snap[4] = current_yaw,
                                    ![i].at = "send"]
    /\ UNCHANGED lock
    /\ LoopFrame
    /\ UNCHANGED lastSent

\* vx, vy, vz, yaw = self.vx, self.vy, self.vz, self.yaw_rate inside the
\* with block; the block is left once the fourth field is read
SendLoopRead(i) ==
    /\ loops[i].at \in {"r_vx", "r_vy", "r_vz", "r_yaw"}
    /\ \/ /\ loops[i].at = "r_vx"
          /\ loops' = [loops EXCEPT ![i].snap[1] = current_vx,
                                    ![i].at = "r_vy"]
          /\ UNCHANGED lock
       \/ /\ loops[i].at = "r_vy"
          /\ loops' = [loops EXCEPT ![i].snap[2] = current_vy,
                                    ![i].at = "r_vz"]
          /\ UNCHANGED lock
       \/ /\ loops[i].at = "r_vz"
          /\ loops' = [loops EXCEPT ![i].snap[3] = current_vz,
                                    ![i].at = "r_yaw"]
          /\ UNCHANGED lock
       \/ /\ loops[i].at = "r_yaw"
          /\ loops' = [loops EXCEPT ![i].snap[4] = current_yaw,
                                    ![i].at = "send"]
          /\ lock' = "none"
    /\ LoopFrame
    /\ UNCHANGED lastSent

\* send_mavlink(msg): a call that raises transmits nothing
SendLoopSend(i) ==
    /\ loops[i].at = "send"
    /\ \E raised \in BOOLEAN :
         IF raised
         THEN /\ loops' = [loops EXCEPT ![i].at = "except"]
              /\ UNCHANGED lastSent
         ELSE /\ loops' = [loops EXCEPT ![i].at = "test", ![i].snap = Zero]
              /\ lastSent' = IF linkClosed THEN lastSent ELSE loops[i].snap
    /\ LoopFrame
    /\ UNCHANGED lock

\* except Exception: print the error, then sleep(0.1) and the next tick
SendLoopExcept(i) ==
    /\ loops[i].at = "except"
    /\ loops' = [loops EXCEPT ![i].at = "test", ![i].snap = Zero]
    /\ LoopFrame
    /\ UNCHANGED <<lock, lastSent>>

send_loop(i) ==
    \/ SendLoopTest(i)
    \/ SendLoopArm(i)
    \/ SendLoopLock(i)
    \/ SendLoopRead(i)
    \/ SendLoopSend(i)
    \/ SendLoopExcept(i)

\* start(): a thread is created unless active is set
start(t) ==
    /\ pc[t] = Resting(t)
    /\ IF ~command_active
       THEN /\ Len(loops) < MaxLoops
            /\ command_active' = TRUE
            /\ loops' = Append(loops, [at |-> "test", snap |-> Zero])
       ELSE UNCHANGED <<command_active, loops>>
    /\ UNCHANGED <<lock, armed, autonomous_enabled, profileVars, keys_pressed,
                   curVars, faceVars, vehicle, linkClosed, camera_active,
                   face_cascade, listening, pc, op, pend, streamVars,
                   histVars>>

\* stop(): active is cleared, then self.thread.join(timeout=1.0)
stop(t) ==
    /\ pc[t] = Resting(t)
    /\ command_active' = FALSE
    /\ pc' = [pc EXCEPT ![t] = IF loops # <<>> THEN "join" ELSE Resting(t)]
    /\ UNCHANGED <<senderVars, armed, autonomous_enabled, profileVars,
                   keys_pressed, curVars, faceVars, vehicle, linkClosed,
                   camera_active, face_cascade, listening, op, pend,
                   streamVars, histVars>>

\* join returns when the thread has ended or after the timeout
join(t) ==
    /\ pc[t] = "join"
    /\ \E timeout \in BOOLEAN : timeout \/ loops[Len(loops)].at = "done"
    /\ pc' = [pc EXCEPT ![t] = Resting(t)]
    /\ UNCHANGED <<senderVars, armed, autonomous_enabled, profileVars,
                   keys_pressed, curVars, faceVars, sessionVars, op, pend,
                   streamVars, histVars>>

\* a sender constructed on a connected vehicle; the set_velocity calls are
\* recorded
InitSender ==
    /\ vehicle = TRUE
    /\ armed = FALSE
    /\ linkClosed = FALSE
    /\ autonomous_enabled = FALSE
    /\ flight_mode = "standard"
    /\ move_speed = SpeedsOf("standard").gnd
    /\ vertical_speed = SpeedsOf("standard").vz
    /\ yaw_rate = SpeedsOf("standard").yaw
    /\ keys_pressed = {}
    /\ current_vx = 0
    /\ current_vy = 0
    /\ current_vz = 0
    /\ current_yaw = 0
    /\ command_active = FALSE
    /\ camera_active = FALSE
    /\ face_cascade = FALSE
    /\ face_detected = FALSE
    /\ face_zone = CENTER
    /\ face_center = NoCentre
    /\ listening = FALSE
    /\ pc = [t \in Threads |-> Resting(t)]
    /\ op = [t \in Threads |-> "none"]
    /\ pend = [t \in Threads |-> Zero]
    /\ spc = "off"
    /\ snap = Zero
    /\ tickArmed = FALSE
    /\ lastSent = NoCmd
    /\ recording = {"calls"}
    /\ published = {Zero}
    /\ missed = 0
    /\ lock = "none"
    /\ loops = <<>>
    /\ manual_control = NoController
    /\ direction = ""
    /\ sent = <<>>

NextSender ==
    \/ start("main")
    \/ stop("main")
    \/ join("main")
    \/ \E v \in SenderVectors : set_velocity("key", v)
    \/ SetVelocityLock("key")
    \/ WriteField("key")
    \/ SetVelocityUnlock("key")
    \/ \E i \in DOMAIN loops : send_loop(i)
    \/ ArmChange

SpecSender == InitSender /\ [][NextSender]_vars

(***************************************************************************)
(* The sender under fair scheduling: a thread that can take a step takes   *)
(* it, a thread inside the with block leaves it, and a thread that waits   *)
(* for a lock which is free again and again gets it.                       *)
(***************************************************************************)
FairSender ==
    /\ \A i \in 1..MaxLoops :
         /\ WF_vars(/\ i \in DOMAIN loops
                    /\ \/ SendLoopTest(i)
                       \/ SendLoopArm(i)
                       \/ SendLoopRead(i)
                       \/ SendLoopSend(i)
                       \/ SendLoopExcept(i))
         /\ SF_vars(i \in DOMAIN loops /\ SendLoopLock(i))
    /\ WF_vars(WriteField("key") \/ SetVelocityUnlock("key"))

SpecSenderFair == InitSender /\ [][NextSender]_vars /\ FairSender

(***************************************************************************)
(* The command-line controllers, src/elevatexy_final.py (class ElevateXY)  *)
(* and src/elevatexy_working.py (class ElevateXYFinal): one thread, which  *)
(* reads a command at the prompt and calls move.  Their set_velocity sends *)
(* (vx, vy, vz) at once, with no armed test; an exception of send_mavlink  *)
(* and a KeyboardInterrupt during the sleep leave move and the loop, and   *)
(* the connection is closed.  sent is the log of the commands handed to    *)
(* the link, MaxMoves the number of moves a session makes.                 *)
(***************************************************************************)
MaxMoves == 2

\* self.speed = 2.0
speed == 200

Zero3 == <<0, 0, 0>>

Directions == {"w", "s", "a", "d", "q", "e"}

\* the dict moves of move, without the descriptions
moves(d) ==
    IF d = "w" THEN <<speed, 0, 0>>
    ELSE IF d = "s" THEN <<-speed, 0, 0>>
    ELSE IF d = "a" THEN <<0, -speed, 0>>
    ELSE IF d = "d" THEN <<0, speed, 0>>
    ELSE IF d = "q" THEN <<0, 0, -50>>
    ELSE <<0, 0, 50>>

\* what a step of the command-line controller leaves alone
MoveFrame ==
    UNCHANGED <<senderVars, vehicle, armed, autonomous_enabled, profileVars,
                keys_pressed, curVars, command_active, camera_active,
                face_cascade, faceVars, listening, op, pend, spc, snap,
                tickArmed, recording, published, missed>>

\* set_velocity(vx, vy, vz) of the command-line controllers, followed by
\* the position after; an exception is caught nowhere: it leaves
\* run_interactive through the finally block, which closes the connection
SendVelocity(v, after) ==
    \E raised \in BOOLEAN :
        IF raised
        THEN /\ pc' = [pc EXCEPT !["main"] = "raised"]
             /\ linkClosed' = TRUE
             /\ UNCHANGED <<lastSent, sent>>
        ELSE /\ pc' = [pc EXCEPT !["main"] = after]
             /\ lastSent' = v
             /\ sent' = Append(sent, v)
             /\ UNCHANGED linkClosed

\* move(direction) up to time.sleep(duration)
move(d) ==
    /\ pc["main"] = "prompt"
    /\ direction' = d
    /\ IF d \in Directions
       THEN /\ Len(sent) + 2 <= 2 * MaxMoves
            /\ SendVelocity(moves(d), "sleep")
       ELSE UNCHANGED <<pc, linkClosed, lastSent, sent>>
    /\ MoveFrame

\* the end of move that returns without the second set_velocity
MoveStop_NoZero ==
    /\ pc["main"] = "sleep"
    /\ pc' = [pc EXCEPT !["main"] = "prompt"]
    /\ UNCHANGED <<direction, linkClosed, lastSent, sent>>
    /\ MoveFrame

\* the end of the sleep: set_velocity(0, 0, 0) and the return of move
MoveStop ==
    /\ pc["main"] = "sleep"
    /\ SendVelocity(Zero3, "prompt")
    /\ UNCHANGED direction
    /\ MoveFrame

\* KeyboardInterrupt during the sleep: the handler of run_interactive
\* lands, then the finally block closes the connection and the loop is left
MoveInterrupt ==
    /\ pc["main"] = "sleep"
    /\ pc' = [pc EXCEPT !["main"] = "exit"]
    /\ linkClosed' = TRUE
    /\ UNCHANGED <<direction, lastSent, sent>>
    /\ MoveFrame

\* a session of run_interactive after connect_and_verify has found the
\* vehicle armed
InitInteractive ==
    /\ vehicle = TRUE
    /\ armed = TRUE
    /\ linkClosed = FALSE
    /\ autonomous_enabled = FALSE
    /\ flight_mode = "standard"
    /\ move_speed = SpeedsOf("standard").gnd
    /\ vertical_speed = SpeedsOf("standard").vz
    /\ yaw_rate = SpeedsOf("standard").yaw
    /\ keys_pressed = {}
    /\ current_vx = 0
    /\ current_vy = 0
    /\ current_vz = 0
    /\ current_yaw = 0
    /\ command_active = FALSE
    /\ camera_active = FALSE
    /\ face_cascade = FALSE
    /\ face_detected = FALSE
    /\ face_zone = CENTER
    /\ face_center = NoCentre
    /\ listening = FALSE
    /\ pc = [t \in Threads |-> IF t = "main" THEN "prompt" ELSE "idle"]
    /\ op = [t \in Threads |-> "none"]
    /\ pend = [t \in Threads |-> Zero]
    /\ spc = "off"
    /\ snap = Zero
    /\ tickArmed = FALSE
    /\ lastSent = NoCmd
    /\ recording = {}
    /\ published = {Zero}
    /\ missed = 0
    /\ lock = "none"
    /\ loops = <<>>
    /\ manual_control = NoController
    /\ direction = ""
    /\ sent = <<>>

MoveArguments == Directions \cup {"x", "land"}

NextInteractive ==
    \/ \E d \in MoveArguments : move(d)
    \/ MoveStop
    \/ MoveInterrupt
    \/ ArmChange

SpecInteractive == InitInteractive /\ [][NextInteractive]_vars

(***************************************************************************)
(* Properties.                                                             *)
(***************************************************************************)
ReadingOrSending == spc \in {"r_vx", "r_vy", "r_vz", "r_yaw", "send"}
Writing(t) == pc[t] \in {"w_vx", "w_vy", "w_vz", "w_yaw"}

\* the held-key vector with the profile in force
HeldVector(keys) == ManualVector(keys, move_speed, vertical_speed, yaw_rate)

\* C1: every 4-tuple the command thread hands to the link is the argument
\* tuple of one single set_velocity call (or the initial all-zero vector):
\* it is never a mix of the fields of two publishes.
C1_NoTornRead == spc = "send" => snap \in published

\* C2: the command thread reads the command and transmits in a tick only if
\* vehicle.armed answered true in that tick; a tick that finds the vehicle
\* disarmed goes back to sleep and the last command on the link changes only
\* in a tick that found it armed.
C2_TransmitOnlyWhenArmed ==
    /\ [](ReadingOrSending => tickArmed)
    /\ [][lastSent' # lastSent => tickArmed]_vars
    /\ [][(spc = "arm" /\ ~armed /\ spc' # spc) => spc' = "test"]_vars

\* C2 witness: a command has been transmitted, and the command thread now
\* finds the vehicle disarmed at the armed test of a later tick.
C2_Witness == lastSent # NoCmd /\ spc = "arm" /\ ~armed

\* C3: when the SPACE handler that switched AUTONOMOUS to MANUAL returns, the
\* shared command is (0,0,0,0).
C3_ZeroOnEnteringManual ==
    [][(pc["key"] = "w_yaw" /\ op["key"] = "toggle" /\ pc'["key"] = "idle")
       => current' = Zero]_vars

\* C4: when the SPACE handler that switched MANUAL to AUTONOMOUS returns, the
\* shared command is (0,0,0,0).
C4_ZeroOnEnteringAutonomous ==
    [][(~autonomous_enabled /\ autonomous_enabled') => current' = Zero]_vars

\* C5: the perception mapper assigns a field of the shared command only while
\* the mode is AUTONOMOUS, the manual mapper only while it is MANUAL.
C5_ExclusiveWriteAuthority ==
    [][/\ (Writing("main") /\ op["main"] = "autonomous"
              /\ pc'["main"] # pc["main"]) => autonomous_enabled
       /\ (Writing("key") /\ op["key"] = "manual"
              /\ pc'["key"] # pc["key"]) => ~autonomous_enabled]_vars

\* C6: once cleanup has completed on an armed vehicle (the link is closed,
\* run has returned, no key handler is running and the command thread has
\* terminated), the last command transmitted on the link, if any, is
\* (0,0,0,0).
C6_LastCommandZeroAfterCleanup ==
    (/\ pc["main"] = "exit" /\ pc["key"] \in {"idle", "stopped"}
     /\ linkClosed /\ armed /\ spc = "done")
    => lastSent \in {NoCmd, Zero}

\* C7: the vehicle link is closed only after the command thread has
\* terminated.
C7_CloseAfterStreamerDone == linkClosed => spc = "done"

\* C8: in MANUAL mode, when the handler of a key-down or key-up event returns
\* with no movement key held any more, the shared command is (0,0,0,0),
\* whether or not the vehicle is armed.  (The case the claim singles out of
\* "the command equals the vector of the keys held"; the camera loop is at
\* rest, so that no perception write is involved.)
C8_ZeroAfterLastRelease ==
    [][(/\ ~autonomous_enabled /\ ~autonomous_enabled'
        /\ pc["main"] = "loop" /\ pc'["main"] = "loop"
        /\ pc'["key"] = "idle"
        /\ keys_pressed' = {}
        /\ \/ keys_pressed' # keys_pressed
           \/ pc["key"] = "w_yaw" /\ op["key"] = "manual")
       => current' = Zero]_vars

\* C9: when the handler of the land or return-to-launch key returns, having
\* forced the mode from AUTONOMOUS to MANUAL, the shared command is
\* (0,0,0,0).  (Taken where the vehicle is armed, the camera loop is at rest
\* and the command is the autonomous vector of the face last detected.)
C9_ZeroOnLandOrRtl ==
    [][(/\ autonomous_enabled /\ ~autonomous_enabled'
        /\ pc["main"] = "loop"
        /\ armed /\ face_detected
        /\ current = AutonomousVector(face_detected, face_zone,
                                      move_speed, vertical_speed)
        /\ pc'["key"] = "idle")
       => current' = Zero]_vars

\* C10: the vector the manual mapper publishes has 0 on every axis both of
\* whose keys are held.
C10_OpposingKeysCancel ==
    (pc["key"] = "w_vx" /\ op["key"] = "manual")
    => /\ {"w", "s"} \subseteq keys_pressed => pend["key"][1] = 0
       /\ {"a", "d"} \subseteq keys_pressed => pend["key"][2] = 0
       /\ {"q", "e"} \subseteq keys_pressed => pend["key"][3] = 0

ManualPublish == pc["key"] = "w_vx" /\ op["key"] = "manual"

\* C12: every vector the manual mapper publishes has vx and vy in
\* {-ground_speed, 0, +ground_speed}, vz in {-vertical_speed, 0,
\* +vertical_speed} and the yaw command in {-rate, 0, +rate} of the active
\* profile (the yaw rate of the profile converted to radians).
C12_ManualVectorComponents ==
    ManualPublish
    => LET g == SpeedsOf(flight_mode).gnd
           z == SpeedsOf(flight_mode).vz
           r == Radians(SpeedsOf(flight_mode).yaw)
       IN  /\ pend["key"][1] \in {-g, 0, g}
           /\ pend["key"][2] \in {-g, 0, g}
           /\ pend["key"][3] \in {-z, 0, z}
           /\ pend["key"][4] \in {-r, 0, r}

\* the manual mapper publishes a vector with all four components set
C12_Witness ==
    /\ ManualPublish
    /\ \A i \in 1..4 : pend["key"][i] # 0
\* the position of the command thread after the step it takes from spc when
\* the tick goes on to the send_mavlink call
NextInTick(at) ==
    CASE at = "r_vx" -> "r_vy"
      [] at = "r_vy" -> "r_vz"
      [] at = "r_vz" -> "r_yaw"
      [] at = "r_yaw" -> "send"

\* C13: while the command thread runs, a tick that finds the vehicle armed
\* goes on to read the command and to make one send_mavlink call, whether or
\* not the command differs from the one last transmitted; the call ends the
\* tick, and a call that returns has handed the tuple read in this tick to
\* the link.  No step of the command thread waits for a key or an
\* observation: it can always take its next step.
C13_OneCommandPerArmedTick ==
    /\ [][(spc = "arm" /\ armed /\ spc' # spc) => spc' = "r_vx"]_vars
    /\ [][(spc \in {"r_vx", "r_vy", "r_vz", "r_yaw"} /\ spc' # spc)
          => spc' = NextInTick(spc)]_vars
    /\ [][(spc = "send" /\ spc' # spc)
          => /\ spc' \in {"test", "except"}
             /\ (spc' = "test" /\ ~linkClosed) => lastSent' = snap]_vars
    /\ [](spc \notin {"off", "done"} => ENABLED CommandThread)

\* an armed tick is about to transmit the vector the link received last
C13_Witness ==
    /\ spc = "send"
    /\ tickArmed
    /\ ~linkClosed
    /\ lastSent # NoCmd
    /\ snap = lastSent
    /\ snap = current

\* C14: a send_mavlink call that raises is contained in its tick: the step
\* changes neither the shared command nor the control mode nor
\* command_active, the command thread goes on to the next tick, and the
\* command thread ends only when it finds command_active cleared.
C14_SendFailureContained ==
    /\ [][(spc = "send" /\ spc' = "except")
          => /\ current' = current
             /\ autonomous_enabled' = autonomous_enabled
             /\ command_active' = command_active
             /\ lastSent' = lastSent]_vars
    /\ [][(spc = "except" /\ spc' # spc) => spc' = "test"]_vars
    /\ [][(spc # "done" /\ spc' = "done")
          => (spc = "test" /\ ~command_active)]_vars
    /\ [](spc = "except" => ENABLED Except)

\* a send has raised while the session is running, after an earlier command
\* was transmitted
C14_Witness ==
    /\ spc = "except"
    /\ command_active
    /\ armed
    /\ lastSent # NoCmd
\* C15: in AUTONOMOUS mode, once MaxMissed passes of the main loop in a row
\* have obtained no frame from the camera, the shared command is (0,0,0,0).
C15_StaleObservationZeroed ==
    (/\ autonomous_enabled
     /\ camera_active
     /\ pc["main"] = "loop"
     /\ pc["key"] = "idle"
     /\ missed >= MaxMissed)
    => current = Zero
\* C16: the handler of a key that changes the active profile (keys 1/2/3)
\* leaves the shared command as it was: the step that changes the profile
\* changes no field of the command and starts no set_velocity call with a
\* vector other than the command in place.
C16_ProfileChangeKeepsCommand ==
    [][flight_mode' # flight_mode
       => /\ current' = current
          /\ pc'["key"] = "idle" \/ pend'["key"] = current]_vars

\* C17: a set_flight_mode call with a name other than eco, standard and
\* performance is rejected: a step never leaves a name outside the three
\* profiles in flight_mode unless it leaves the name and the ground, vertical
\* and yaw rates exactly as they were.
C17_UnknownProfileRejected ==
    [][flight_mode' \notin FlightModes
         => /\ flight_mode' = flight_mode
            /\ move_speed' = move_speed
            /\ vertical_speed' = vertical_speed
            /\ yaw_rate' = yaw_rate]_vars

\* the step of the main thread that processes an observation: detect_face
\* and the set_velocity call of calculate_autonomous_commands
ObservationStep ==
    /\ pc["main"] = "checked"
    /\ pc'["main"] = "w_vx"
    /\ op'["main"] = "autonomous"

PerceptionSent ==
    /\ pc["main"] = "key"
    /\ op["main"] = "autonomous"
    /\ face_detected
    /\ face_zone # CENTER

\* C19: for a target present in a zone other than CENTER the perception
\* mapper yields vx = 0, yaw = 0, vy = -ground speed / 0 / +ground speed for
\* the left / middle / right column and vz = -vertical speed / 0 / +vertical
\* speed for the top / middle / bottom row of the active profile, both
\* nonzero in the four corner zones.  In every zone but CENTER the offset on
\* an axis that commands a motion is beyond the dead zone of that axis, so
\* the property is stated for every such observation.
C19_ZoneVector ==
    PerceptionSent
      => /\ pend["main"] = <<0, ((face_zone % 3) - 1) * move_speed,
                             ((face_zone \div 3) - 1) * vertical_speed, 0>>
         /\ face_zone \in {TOP_LEFT, TOP_RIGHT, BOTTOM_LEFT, BOTTOM_RIGHT}
              => pend["main"][2] # 0 /\ pend["main"][3] # 0

\* profile performance, zone TOP_RIGHT: (0, +ground speed, -vertical speed, 0)
C19_Witness ==
    /\ PerceptionSent
    /\ flight_mode = "performance"
    /\ face_zone = TOP_RIGHT
    /\ pend["main"] = <<0, SIM_PERF_GND_SPEED, -SIM_PERF_VZ_SPEED, 0>>

\* C20: every vector the perception mapper publishes, for every zone,
\* presence flag and profile, has a yaw rate of 0.
C20_PerceptionYawZero ==
    op["main"] = "autonomous" => pend["main"][4] = 0

\* the perception mapper has sent a nonzero vector under the eco profile
C20_Witness ==
    /\ op["main"] = "autonomous"
    /\ flight_mode = "eco"
    /\ face_detected
    /\ pend["main"] # Zero
    /\ pend["main"][4] = 0

\* C21: in the 640 x 480 frame get_face_zone puts a pixel in exactly one of
\* the nine zones, by the half-open columns [0,213), [213,426), [426,640)
\* and rows [0,160), [160,320), [320,480): a boundary pixel belongs to the
\* zone that starts there, (0,0) is TOP_LEFT and (320,240) is CENTER.
C21_ZonePartition ==
    face_detected =>
      LET x == face_center[1]
          y == face_center[2]
          col == IF x < 213 THEN 0 ELSE IF x < 426 THEN 1 ELSE 2
          row == IF y < 160 THEN 0 ELSE IF y < 320 THEN 1 ELSE 2
      IN  /\ face_zone = 3 * row + col
          /\ Cardinality({i \in 1..9 :
                            /\ zones[i][1] <= x /\ x < zones[i][3]
                            /\ zones[i][2] <= y /\ y < zones[i][4]}) = 1
          /\ face_center = <<0, 0>> => face_zone = TOP_LEFT
          /\ face_center = <<320, 240>> => face_zone = CENTER

\* the pixel on the left and top boundary of CENTER has been classified
C21_Witness ==
    /\ face_detected
    /\ face_center = <<213, 160>>
    /\ face_zone = CENTER

\* C22: the streamer holds the lock only while it copies the four fields
\* and has released it before it calls the link send: whenever a _send_loop
\* thread holds the lock it is reading the fields, so a set_velocity call
\* never waits for a transmission.
C22_LockOnlyWhileCopying ==
    \A i \in DOMAIN loops :
        lock = LoopName(i) => loops[i].at \in {"r_vx", "r_vy", "r_vz", "r_yaw"}

\* set_velocity is inside its with block while a _send_loop thread is at
\* the link send
C22_Witness ==
    /\ lock = "key"
    /\ pc["key"] = "w_vx"
    /\ \E i \in DOMAIN loops : loops[i].at = "send"

\* C23: while the mode is AUTONOMOUS a key-down or key-up event of a
\* movement key updates the set of held keys and nothing else: the handler
\* returns without a set_velocity call, the vector of the keys is neither
\* published nor kept, the shared command stays as it was.
C23_KeysDiscardedInAutonomous ==
    [][autonomous_enabled /\ keys_pressed' # keys_pressed
         => /\ pc'["key"] = "idle"
            /\ pend' = pend
            /\ op' = op
            /\ current' = current]_vars

\* a movement key is held in AUTONOMOUS mode, the key handler has returned
\* and the command in place is the vector of a corner zone
C23_Witness ==
    /\ autonomous_enabled
    /\ keys_pressed # {}
    /\ pc["key"] = "idle"
    /\ face_detected
    /\ current = AutonomousVector(face_detected, face_zone, move_speed,
                                  vertical_speed)
    /\ current_vz # 0

\* the SPACE branch of on_press has switched the mode: entering MANUAL it
\* calls set_velocity(0, 0, 0, 0)
ToggleStep ==
    /\ pc["key"] = "idle"
    /\ autonomous_enabled' = ~autonomous_enabled
    /\ autonomous_enabled' \/ (pc'["key"] = "w_vx" /\ op'["key"] = "toggle")

\* the 'l' / 'r' branch of on_press has forced the mode to MANUAL
LandOrRtlStep ==
    /\ pc["key"] = "idle"
    /\ vehicle
    /\ autonomous_enabled
    /\ ~autonomous_enabled'
    /\ pc'["key"] = "idle"

\* C24: the mode is always exactly one of MANUAL and AUTONOMOUS and changes
\* only when toggle() (SPACE) is invoked, which switches to the other mode;
\* no other key, command or event changes it.
C24_ModeChangesOnlyOnToggle ==
    /\ [](autonomous_enabled \in BOOLEAN)
    /\ [][autonomous_enabled' # autonomous_enabled => ToggleStep]_vars

\* C24 as the program has it: the mode is always exactly one of MANUAL and
\* AUTONOMOUS; it changes only in a step of on_press, by SPACE to the other
\* mode or by 'l' / 'r' on a connected vehicle from AUTONOMOUS to MANUAL; a
\* step that changes it is not a movement or profile key, a key release, a
\* step of the camera loop or a change of the arming.
C24_ModeChangesOnToggleLandRtl ==
    /\ [](autonomous_enabled \in BOOLEAN)
    /\ [][autonomous_enabled' # autonomous_enabled
            => /\ ToggleStep \/ LandOrRtlStep
               /\ keys_pressed' = keys_pressed
               /\ flight_mode' = flight_mode
               /\ pc'["main"] = pc["main"]
               /\ armed' = armed]_vars

\* MANUAL mode with the key handler at rest and no set_velocity call of the
\* toggle made, while the last detection is still flagged
C24_Witness ==
    /\ ~autonomous_enabled
    /\ pc["key"] = "idle"
    /\ op["key"] # "toggle"
    /\ face_detected
    /\ pc["main"] = "loop"
    /\ current_vz # 0

\* C25: in MANUAL mode a single held direction key yields the rate of the
\* active profile with the sign of the key on the axis of the key and 0 on
\* the other three axes; with the standard profile (ground speed 3.0 m/s)
\* and only the forward key held the published vector is (3.0, 0, 0, 0).
C25_SingleKeyVector ==
    ManualPublish =>
      /\ keys_pressed = {"w"} => pend["key"] = <<move_speed, 0, 0, 0>>
      /\ keys_pressed = {"s"} => pend["key"] = <<-move_speed, 0, 0, 0>>
      /\ keys_pressed = {"a"} => pend["key"] = <<0, -move_speed, 0, 0>>
      /\ keys_pressed = {"d"} => pend["key"] = <<0, move_speed, 0, 0>>
      /\ keys_pressed = {"q"} => pend["key"] = <<0, 0, -vertical_speed, 0>>
      /\ keys_pressed = {"e"} => pend["key"] = <<0, 0, vertical_speed, 0>>
      /\ keys_pressed = {"left"}
           => pend["key"] = <<0, 0, 0, -Radians(yaw_rate)>>
      /\ keys_pressed = {"right"}
           => pend["key"] = <<0, 0, 0, Radians(yaw_rate)>>
      /\ keys_pressed = {"w"} /\ flight_mode = "standard"
           => pend["key"] = <<300, 0, 0, 0>>

\* standard profile, only the forward key held: (3.0 m/s, 0, 0, 0)
C25_Witness ==
    /\ ManualPublish
    /\ ~autonomous_enabled
    /\ flight_mode = "standard"
    /\ keys_pressed = {"w"}
    /\ pend["key"] = <<STD_GND_SPEED, 0, 0, 0>>

\* C26: the command transmitted on an armed tick is the shared command as
\* it stood when the tick read it, so a vector published before the read of
\* a tick goes out on that tick.  For _command_loop (spc, snap): what a tick
\* has read is one of the vectors published, and what it transmits is what
\* it has read.  For the _send_loop threads (loops): what a tick has read
\* is the command in place when it leaves the lock, and what it transmits
\* is what it has read.
C26_TransmitsCommandAsRead ==
    [][/\ (spc = "r_yaw" /\ spc' = "send") => snap' \in published
       /\ (spc = "send" /\ lastSent' # lastSent) => lastSent' = snap
       /\ \A i \in DOMAIN loops :
            /\ (loops[i].at = "r_yaw" /\ loops'[i].at = "send")
                 => loops'[i].snap = current
            /\ (/\ loops[i].at = "send"
                /\ loops'[i].at # "send"
                /\ lastSent' # lastSent)
                 => lastSent' = loops[i].snap]_vars

\* C27: under fair scheduling, once active is cleared and not set again,
\* every _send_loop thread ends.  A thread that comes to its loop test with
\* active clear leaves the loop, so it transmits at most once after the
\* flag is cleared (the iteration already past the test), and a thread
\* that has ended stays ended.
C27_LoopTerminatesAfterStop ==
    /\ [][\A i \in DOMAIN loops :
            /\ (/\ loops[i].at = "test"
                /\ ~command_active
                /\ loops'[i].at # "test") => loops'[i].at = "done"
            /\ (/\ loops[i].at = "send"
                /\ loops'[i].at # "send") => loops'[i].at \in {"test", "except"}
            /\ loops[i].at = "done" => loops'[i] = loops[i]]_vars
    /\ (<>[](~command_active))
         => <>[](\A i \in DOMAIN loops : loops[i].at = "done")

\* a thread that has transmitted has ended after stop()
C27_Witness ==
    /\ ~command_active
    /\ loops # <<>>
    /\ \A i \in DOMAIN loops : loops[i].at = "done"
    /\ lastSent \in SenderVectors

\* C28: whatever the sequence of start() and stop() calls, at most one
\* _send_loop thread is live (created and not ended) at any time.
C28_AtMostOneLoopThread ==
    Cardinality({i \in DOMAIN loops : loops[i].at # "done"}) <= 1

\* C29: in every interleaving of set_velocity with the _send_loop threads,
\* the tuple a thread is about to hand to the link, and the tuple last
\* handed to it, is the argument tuple of one set_velocity call or the
\* initial (0, 0, 0, 0).
C29_SentTupleIsOneCall ==
    /\ \A i \in DOMAIN loops : loops[i].at = "send" => loops[i].snap \in published
    /\ lastSent # NoCmd => lastSent \in published

\* one published vector has been transmitted and a tick is about to
\* transmit the other
C29_Witness ==
    /\ lastSent \in SenderVectors
    /\ \E i \in DOMAIN loops :
         /\ loops[i].at = "send"
         /\ loops[i].snap \in SenderVectors
         /\ loops[i].snap # lastSent

\* C30: after construction the mode is MANUAL, the profile is standard
\* with its three rates and the shared command is (0, 0, 0, 0); and as long
\* as no set_velocity call has published another vector, the shared command
\* is (0, 0, 0, 0) and whatever a streamer reads or transmits is
\* (0, 0, 0, 0).
C30_ZeroUntilFirstPublish ==
    /\ /\ ~autonomous_enabled
       /\ flight_mode = "standard"
       /\ move_speed = STD_GND_SPEED
       /\ vertical_speed = STD_VZ_SPEED
       /\ yaw_rate = STD_YAW_RATE
       /\ current = Zero
       /\ lastSent = NoCmd
    /\ [](published = {Zero}
            => /\ current = Zero
               /\ lastSent \in {NoCmd, Zero}
               /\ spc = "send" => snap = Zero
               /\ \A i \in DOMAIN loops :
                    loops[i].at = "send" => loops[i].snap = Zero)

\* the streamer has transmitted (0, 0, 0, 0) on an armed vehicle before any
\* key is held, any face is seen, the mode or the profile is changed or
\* any other vector is published
C30_Witness ==
    /\ lastSent = Zero
    /\ armed
    /\ published = {Zero}
    /\ ~autonomous_enabled
    /\ flight_mode = "standard"
    /\ keys_pressed = {}
    /\ ~face_detected

\* C31: in the 640x480 frame with dead zones 80 and 60, a face centre that
\* get_face_zone places in the left or right column is more than 80 from
\* the middle column line, one it places in the top or bottom row is more
\* than 60 from the middle row line, and calculate_drone_commands gives
\* for it, in every profile, the vector that the zone alone selects.
C31_DeadZoneNeverSuppresses ==
    face_detected =>
      LET z == get_face_zone(face_center[1], face_center[2])
      IN  /\ z \in {TOP_LEFT, CENTER_LEFT, BOTTOM_LEFT,
                    TOP_RIGHT, CENTER_RIGHT, BOTTOM_RIGHT}
               => Abs(face_center[1] - frame_width \div 2) > deadzone_horizontal
          /\ z \in {TOP_LEFT, TOP_CENTER, TOP_RIGHT,
                    BOTTOM_LEFT, BOTTOM_CENTER, BOTTOM_RIGHT}
               => Abs(face_center[2] - frame_height \div 2) > deadzone_vertical
          /\ \A m \in FlightModes :
               calculate_drone_commands(z, face_center, SimSpeedsOf(m).gnd,
                                        SimSpeedsOf(m).vz)
                 = AutonomousVector(TRUE, z, SimSpeedsOf(m).gnd,
                                    SimSpeedsOf(m).vz)

\* the face is at the pixel of BOTTOM_LEFT nearest to the centre of the
\* frame and both components of its vector have been transmitted
C31_Witness ==
    /\ face_detected
    /\ face_center = <<212, 320>>
    /\ lastSent = <<0, -move_speed, vertical_speed, 0>>

\* C32: for a face centre outside the frame (x < 0, y < 0, x >= width or
\* y >= height) get_face_zone returns CENTER, and the observation publishes
\* (0, 0, 0, 0).
C32_OutsideFrameHovers ==
    [][(/\ ObservationStep
        /\ face_detected'
        /\ \/ face_center'[1] < 0
           \/ face_center'[2] < 0
           \/ face_center'[1] >= frame_width
           \/ face_center'[2] >= frame_height)
         => /\ face_zone' = CENTER
            /\ pend'["main"] = Zero]_vars

\* a face reported one pixel beyond the right edge is being published as
\* (0, 0, 0, 0) while the command in place moves towards a corner
C32_Witness ==
    /\ pc["main"] = "w_vx"
    /\ op["main"] = "autonomous"
    /\ face_detected
    /\ face_center = <<640, 240>>
    /\ face_zone = CENTER
    /\ pend["main"] = Zero
    /\ current_vy # 0
    /\ current_vz # 0

\* C33: every vector the perception mapper publishes has vx = 0: what
\* detect_and_track sends has it, and calculate_autonomous_commands yields
\* it for every zone, presence flag and profile.
C33_PerceptionNeverForward ==
    /\ op["main"] = "autonomous" => pend["main"][1] = 0
    /\ \A z \in 0..8 : \A d \in BOOLEAN : \A m \in FlightModes :
         AutonomousVector(d, z, SpeedsOf(m).gnd, SpeedsOf(m).vz)[1] = 0

\* the perception mapper has sent the lateral and vertical rates of the
\* performance profile for a target in BOTTOM_LEFT
C33_Witness ==
    /\ op["main"] = "autonomous"
    /\ flight_mode = "performance"
    /\ face_detected
    /\ face_zone = BOTTOM_LEFT
    /\ pend["main"] = <<0, -SIM_PERF_GND_SPEED, SIM_PERF_VZ_SPEED, 0>>

\* C34: in the cv2 variants, once the controller exists, the profile name
\* of the simulation and that of its ManualDroneController are equal, and
\* the ground and vertical rates of the controller are those the perception
\* mapper uses: the ones update_speeds_for_mode has set, which are also the
\* ones the name selects.
C34_MappersShareProfile ==
    manual_control # NoController
      => /\ manual_control.flight_mode = flight_mode
         /\ manual_control.move_speed = move_speed
         /\ manual_control.vertical_speed = vertical_speed
         /\ manual_control.move_speed = SimSpeedsOf(flight_mode).gnd
         /\ manual_control.vertical_speed = SimSpeedsOf(flight_mode).vz

\* set_flight_mode("performance") has been called and both mappers use the
\* rates of the performance profile
C34_Witness ==
    /\ flight_mode = "performance"
    /\ manual_control = ManualDroneController("performance")
    /\ direction = ""
    /\ sent = <<>>
    /\ move_speed = SIM_PERF_GND_SPEED
    /\ vertical_speed = SIM_PERF_VZ_SPEED

\* C35: move(direction) for a known direction transmits the velocity of
\* the direction and then (0, 0, 0), and for an unknown direction transmits
\* nothing: whenever the controller is at its prompt, the log of the
\* commands transmitted is a sequence of such pairs, and the command last
\* transmitted, if any, is (0, 0, 0).
C35_MoveSendsVelocityThenZero ==
    /\ [](pc["main"] = "prompt"
            => /\ Len(sent) % 2 = 0
               /\ \A i \in 1..Len(sent) :
                    IF i % 2 = 1
                    THEN \E d \in Directions : sent[i] = moves(d)
                    ELSE sent[i] = Zero3
               /\ lastSent = IF sent = <<>> THEN NoCmd ELSE Zero3)
    /\ [][/\ (pc["main"] = "prompt" /\ pc'["main"] = "sleep")
               => sent' = Append(sent, moves(direction'))
          /\ (pc["main"] = "sleep" /\ pc'["main"] = "prompt")
               => sent' = Append(sent, Zero3)
          /\ (pc["main"] = "prompt" /\ direction' \notin Directions)
               => sent' = sent]_vars

\* after a completed move forward, move has been called with an unknown
\* direction and has transmitted nothing
C35_Witness ==
    /\ pc["main"] = "prompt"
    /\ direction = "x"
    /\ sent = <<moves("w"), Zero3>>
    /\ lastSent = Zero3

====
